---- MODULE Spec2Model ----
(***************************************************************************)
(* Scarred Winds: the heat/fuel burning-text simulation                    *)
(* (burning_text.py), its snapshot store (burning_text_state.py) and the   *)
(* screen-burn transition with the scenes that drive it (main_menu.py,     *)
(* settings_screen.py).                                                    *)
(*                                                                         *)
(* Numbers.  The program computes with floats; the model computes with     *)
(* exact fixed-point numbers.  Time is counted in ticks, TicksPerSec of    *)
(* them to the second, and every real quantity q (heat, fuel, progress,    *)
(* alpha) is stored as the integer q * TicksPerSec, so that rate * dt is   *)
(* the exact integer rate * (dt in ticks).                                 *)
(***************************************************************************)
EXTENDS Integers, Sequences, FiniteSets, TLC

(***************************************************************************)
(* Bounds of the model.                                                    *)
(***************************************************************************)
TicksPerSec == 240      \* time resolution: dt is a whole number of ticks
MaxOps == 5             \* calls in one run of the burning-text world
MaxStoreOps == 4        \* calls in one run of the snapshot store world
MaxFrames == 160        \* updates of a transition driven on its own
MaxEvents == 2          \* events queued in one frame of a scene
MaxTitleFrames == 4     \* frames of title updates in a behaviour of SpecFlow
MaxLetterOps == 3       \* calls in one run of a letter with its particles
MaxAliasOps == 6        \* calls in one run of the store with its shared buffers
MaxPointerFrames == 3   \* frames of a text under the pointer
MaxSparkFrames == 4     \* updates of a transition whose spawn rolls may succeed
NumTextures == 2        \* distinct outcomes of the random charcoal texture

Fixed(q) == q * TicksPerSec

Max(a, b) == IF a >= b THEN a ELSE b
Min(a, b) == IF a <= b THEN a ELSE b

(***************************************************************************)
(* burning_text.py, configuration constants.                               *)
(***************************************************************************)
HEAT_RATE == 400
COOL_RATE == 50
IGNITION_POINT == 200
HEAT_TRANSFER_RATE == 800
\* FUEL_CONSUMPTION_RATE = 0.5, as numerator and denominator
FUEL_CONSUMPTION_RATE == <<1, 2>>
FUEL_FULL == 100

\* charred_texture is None
None == 0
TextureIds == 1 .. NumTextures

(***************************************************************************)
(* Glyphs.  font.render(char) gives each character a bounding box and a    *)
(* pixel mask; the model's font has three characters.                      *)
(***************************************************************************)
Chars == {"A", "B", " "}

GlyphSize(ch) == IF ch = " " THEN <<1, 2>> ELSE <<2, 2>>

GlyphMask(ch) ==
    CASE ch = "A" -> {<<0, 0>>, <<1, 0>>}
      [] ch = "B" -> {<<0, 0>>, <<1, 1>>}
      [] OTHER -> {}

CellsOf(w, h) == (0 .. w - 1) \X (0 .. h - 1)

Cells(L) == CellsOf(L.width, L.height)

\* mask.to_surface() > 0: the boolean glyph mask as an array
MaskArray(L) == [c \in Cells(L) |-> c \in L.mask]

(***************************************************************************)
(* Letter.__init__                                                         *)
(***************************************************************************)
\* faulty variant: the fuel is not masked, every cell of the grid starts full
NewLetterFuelEverywhere(ch, pos) ==
    LET w == GlyphSize(ch)[1]
        h == GlyphSize(ch)[2]
    IN  [kind |-> "letter",
         char |-> ch,
         pos |-> pos,
         width |-> w,
         height |-> h,
         mask |-> GlyphMask(ch),
         heat_map |-> [c \in CellsOf(w, h) |-> 0],
         fuel_map |-> [c \in CellsOf(w, h) |-> Fixed(FUEL_FULL)],
         particles |-> <<>>,
         charred_texture |-> None,
         gen_calls |-> 0,
         hot_acc |-> [c \in CellsOf(w, h) |->
                         IF c \in GlyphMask(ch) THEN 0 ELSE -1]]

NewLetter(ch, pos) ==
    LET w == GlyphSize(ch)[1]
        h == GlyphSize(ch)[2]
    IN  [kind |-> "letter",
         char |-> ch,
         pos |-> pos,
         width |-> w,
         height |-> h,
         mask |-> GlyphMask(ch),
         heat_map |-> [c \in CellsOf(w, h) |-> 0],
         fuel_map |-> [c \in CellsOf(w, h) |->
                          IF c \in GlyphMask(ch) THEN Fixed(FUEL_FULL) ELSE 0],
         particles |-> <<>>,
         charred_texture |-> None,
         \* history, not program state: calls of _generate_charred_texture,
         \* and per cell the time for which, starting with full fuel, it has
         \* been at or above the ignition point at the ignition test of every
         \* update (-1: it has not)
         gen_calls |-> 0,
         hot_acc |-> [c \in CellsOf(w, h) |->
                         IF c \in GlyphMask(ch) THEN 0 ELSE -1]]

\* a space in the text: the letters list holds None there
NoLetter == [kind |-> "none"]

IsLetter(L) == L.kind = "letter"

\* rect.collidepoint
CollidePoint(L, p) ==
    /\ L.pos[1] <= p[1] /\ p[1] < L.pos[1] + L.width
    /\ L.pos[2] <= p[2] /\ p[2] < L.pos[2] + L.height

(***************************************************************************)
(* Letter.add_heat                                                         *)
(***************************************************************************)
DistSq(L, c, x, y) ==
    LET local_x == x - L.pos[1]
        local_y == y - L.pos[2]
    IN  (c[1] - local_x) * (c[1] - local_x) + (c[2] - local_y) * (c[2] - local_y)

\* faulty variant: the fuel of a cell is not consulted
HeatMaskAnyFuel(L, x, y, radius) ==
    {c \in Cells(L) : DistSq(L, c, x, y) < radius * radius}

HeatMask(L, x, y, radius) ==
    {c \in Cells(L) : DistSq(L, c, x, y) < radius * radius /\ L.fuel_map[c] > 0}

add_heat(L, x, y, radius, dt) ==
    [L EXCEPT !.heat_map =
        [c \in Cells(L) |->
            IF c \in HeatMask(L, x, y, radius)
            THEN L.heat_map[c] + HEAT_RATE * dt
            ELSE L.heat_map[c]]]

\* faulty variant: the heat map does not cool
CooledNever(L, dt) == L.heat_map

(***************************************************************************)
(* Letter.update.  update is the step on the grids and the texture, which  *)
(* is the whole step when no particle is alive and no spawn roll succeeds; *)
(* Letter_update adds the particle list.                                   *)
(***************************************************************************)
\* 1. cooling, clipped at 0
Cooled(L, dt) == [c \in Cells(L) |-> Max(0, L.heat_map[c] - COOL_RATE * dt)]

\* faulty variant: any cell that is still warm after cooling burns
BurningMaskAnyWarm(L, dt) ==
    {c \in Cells(L) : Cooled(L, dt)[c] > 0 /\ L.fuel_map[c] > 0}

\* 2. the burning mask, taken once, after cooling
BurningMask(L, dt) ==
    {c \in Cells(L) : Cooled(L, dt)[c] >= Fixed(IGNITION_POINT) /\ L.fuel_map[c] > 0}

\* faulty variant: the factor 100 is left out
fuel_consumed_unscaled(dt) ==
    (FUEL_CONSUMPTION_RATE[1] * dt) \div FUEL_CONSUMPTION_RATE[2]

fuel_consumed(dt) ==
    (FUEL_CONSUMPTION_RATE[1] * 100 * dt) \div FUEL_CONSUMPTION_RATE[2]

\* heat_map[min_x:max_x, min_y:max_y] around a burning cell b
SpreadSlice(L, b) ==
    {c \in Cells(L) :
        /\ Max(0, b[1] - 1) <= c[1] /\ c[1] < Min(L.width, b[1] + 2)
        /\ Max(0, b[2] - 1) <= c[2] /\ c[2] < Min(L.height, b[2] + 2)}

\* the burning cells whose spread roll succeeded; rolls is the set of cells
\* for which random.random() < FIRE_SPREAD_CHANCE
Spreaders(L, dt, rolls) == BurningMask(L, dt) \cap rolls

SpreadHeat(L, dt, rolls) ==
    [c \in Cells(L) |->
        Cooled(L, dt)[c]
        + HEAT_TRANSFER_RATE * dt
          * Cardinality({b \in Spreaders(L, dt, rolls) : c \in SpreadSlice(L, b)})]

\* faulty variant: the clip has no lower bound
ClipFuelNoFloor(f) == Min(Fixed(FUEL_FULL), f)

\* np.clip(fuel_map, 0, 100)
ClipFuel(f) == Max(0, Min(Fixed(FUEL_FULL), f))

\* faulty variant: cells that are not burning gain the fuel the burning ones lose
ConsumedFuelRegrow(L, dt) ==
    [c \in Cells(L) |->
        ClipFuel(IF c \in BurningMask(L, dt)
                 THEN L.fuel_map[c] - fuel_consumed(dt)
                 ELSE L.fuel_map[c] + fuel_consumed(dt))]

ConsumedFuel(L, dt) ==
    [c \in Cells(L) |->
        ClipFuel(IF c \in BurningMask(L, dt)
                 THEN L.fuel_map[c] - fuel_consumed(dt)
                 ELSE L.fuel_map[c])]

\* faulty variant: the texture is generated whether or not one is cached
NeedsTextureNoCache(L, f) ==
    /\ \E c \in Cells(L) : f[c] < Fixed(FUEL_FULL)
    /\ \A c \in Cells(L) : MaskArray(L)[c] => f[c] = 0

\* faulty variant: np.any in place of np.all, one burnt-out glyph cell suffices
NeedsTextureAnyBurnt(L, f) ==
    /\ L.charred_texture = None
    /\ \E c \in Cells(L) : f[c] < Fixed(FUEL_FULL)
    /\ \E c \in Cells(L) : MaskArray(L)[c] /\ f[c] = 0

\* 4. the condition under which the charcoal texture is generated, on the
\* fuel map f the step has produced
NeedsTexture(L, f) ==
    /\ L.charred_texture = None
    /\ \E c \in Cells(L) : f[c] < Fixed(FUEL_FULL)
    /\ \A c \in Cells(L) : MaskArray(L)[c] => f[c] = 0

BurnOutTime ==
    (FUEL_FULL * TicksPerSec * FUEL_CONSUMPTION_RATE[2])
        \div (FUEL_CONSUMPTION_RATE[1] * 100)

HotAcc(L, dt) ==
    [c \in Cells(L) |->
        IF L.hot_acc[c] >= 0 /\ Cooled(L, dt)[c] >= Fixed(IGNITION_POINT)
        THEN Min(BurnOutTime, L.hot_acc[c] + dt)
        ELSE -1]

update(L, dt, rolls, tex) ==
    LET f == ConsumedFuel(L, dt)
        gen == NeedsTexture(L, f)
    IN  [L EXCEPT !.heat_map = SpreadHeat(L, dt, rolls),
                  !.fuel_map = f,
                  !.charred_texture = IF gen THEN tex ELSE @,
                  !.gen_calls = IF gen THEN Min(2, @ + 1) ELSE @,
                  !.hot_acc = HotAcc(L, dt)]

(***************************************************************************)
(* Particle, and the particle part of Letter.update.  Of a Particle its    *)
(* type, age and lifetime are kept, in ticks: position, velocity and       *)
(* colour are read by draw alone.                                          *)
(***************************************************************************)
ParticleTypes == {"flame", "spark", "smoke"}

\* the lifetimes drawn in Particle.__init__: the ends of 0.8 +- 0.2 s for a
\* flame, the middle of 0.5 +- 0.1 s and of 2.5 +- 0.5 s for spark and smoke
Lifetimes(p_type) ==
    CASE p_type = "flame" -> {(6 * TicksPerSec) \div 10, TicksPerSec}
      [] p_type = "spark" -> {TicksPerSec \div 2}
      [] p_type = "smoke" -> {(5 * TicksPerSec) \div 2}

\* Particle.__init__
NewParticle(p_type, lifetime) ==
    [type |-> p_type, age |-> 0, lifetime |-> lifetime]

\* faulty variant: a particle is dead only once its age has passed its lifetime
ParticleDeadStrict(p) == p.age > p.lifetime

\* the result of Particle.update, on the particle after the step
ParticleDead(p) == p.age >= p.lifetime

\* Particle.update: the particle after the step
Particle_update(p, dt) == [p EXCEPT !.age = @ + dt]

\* the place of a spawn in the order of Letter.update: the burning cells in
\* the order of np.argwhere, and per cell flame, spark, smoke
SpawnRank(L, sp) ==
    (sp.cell[1] * L.height + sp.cell[2]) * 3
        + (CASE sp.type = "flame" -> 0 [] sp.type = "spark" -> 1 [] sp.type = "smoke" -> 2)

\* the spawns sps (a set of [cell, type, lifetime]) as the particles appended,
\* in the order of the code
RECURSIVE SpawnedParticles(_, _)
SpawnedParticles(L, sps) ==
    IF sps = {} THEN <<>>
    ELSE LET first == CHOOSE sp \in sps :
                         \A other \in sps : SpawnRank(L, sp) <= SpawnRank(L, other)
         IN  <<NewParticle(first.type, first.lifetime)>>
                 \o SpawnedParticles(L, sps \ {first})

\* 3. the particle list after the step: every particle is updated, the dead
\* ones are dropped
LiveParticles(ps, dt) ==
    SelectSeq([i \in 1 .. Len(ps) |-> Particle_update(ps[i], dt)],
              LAMBDA q : ~ParticleDead(q))

\* Letter.update with its particles; sps: the spawn rolls that succeed, each
\* for a burning cell
Letter_update(L, dt, rolls, tex, sps) ==
    [update(L, dt, rolls, tex) EXCEPT
        !.particles = LiveParticles(L.particles \o SpawnedParticles(L, sps), dt)]

(***************************************************************************)
(* BurningText                                                             *)
(***************************************************************************)
RECURSIVE InitializeLetters(_, _)
InitializeLetters(text, x_offset) ==
    IF text = <<>> THEN <<>>
    ELSE IF Head(text) = " "
         THEN <<NoLetter>>
              \o InitializeLetters(Tail(text), x_offset + GlyphSize(" ")[1])
         ELSE <<NewLetter(Head(text), <<x_offset, 0>>)>>
              \o InitializeLetters(Tail(text), x_offset + GlyphSize(Head(text))[1])

NewBurningText(text) ==
    [text |-> text, letters |-> InitializeLetters(text, 0), time |-> 0]

\* the pointer heat of BurningText.update on one letter
\* faulty variant: the pointer heats every letter, under it or not
PointerHeatedAnywhere(L, mouse_pos, dt) ==
    add_heat(L, mouse_pos[1], mouse_pos[2], 20, dt)

PointerHeated(L, mouse_pos, dt) ==
    IF CollidePoint(L, mouse_pos)
    THEN add_heat(L, mouse_pos[1], mouse_pos[2], 20, dt)
    ELSE L

\* BurningText.update; rolls[i] are the spread rolls of letter i
BurningText_update(bt, mouse_pos, dt, rolls, tex) ==
    [bt EXCEPT !.time = @ + dt,
               !.letters =
                  [i \in 1 .. Len(bt.letters) |->
                      IF IsLetter(bt.letters[i])
                      THEN update(PointerHeated(bt.letters[i], mouse_pos, dt),
                                  dt, rolls[i], tex)
                      ELSE bt.letters[i]]]

(***************************************************************************)
(* burning_text_state.py: BurningStateManager                              *)
(***************************************************************************)
\* ndarray.tolist() of an array of shape (w, h): w lists of h numbers
ToList(arr, w, h) == [x \in 1 .. w |-> [y \in 1 .. h |-> arr[<<x - 1, y - 1>>]]]

\* np.array(list): the shape is taken from the nested lists
FromList(lst) ==
    LET w == Len(lst)
        h == IF w = 0 THEN 0 ELSE Len(lst[1])
    IN  [c \in CellsOf(w, h) |-> lst[c[1] + 1][c[2] + 1]]

\* the entry of letters_state for one slot of the letters list
LetterState(L) ==
    IF IsLetter(L)
    THEN [kind |-> "letter",
          char |-> L.char,
          pos |-> L.pos,
          fuel_map |-> ToList(L.fuel_map, L.width, L.height),
          heat_map |-> ToList(L.heat_map, L.width, L.height)]
    ELSE NoLetter

StateData(bt) ==
    [text |-> bt.text,
     letters_state |-> [i \in 1 .. Len(bt.letters) |-> LetterState(bt.letters[i])]]

\* BurningStateManager.save_state: the store after the call
save_state(st, identifier, bt) ==
    [k \in DOMAIN st \cup {identifier} |->
        IF k = identifier THEN StateData(bt) ELSE st[k]]

\* faulty variant: the fuel map is restored from the saved heat map and vice versa
RestoredLetterSwapped(L, letter_state) ==
    [L EXCEPT !.fuel_map = FromList(letter_state.heat_map),
              !.heat_map = FromList(letter_state.fuel_map)]

\* faulty variant: a restore drops the cached texture
RestoredLetterNoTexture(L, letter_state) ==
    [L EXCEPT !.fuel_map = FromList(letter_state.fuel_map),
              !.heat_map = FromList(letter_state.heat_map),
              !.charred_texture = None,
              !.hot_acc = [c \in Cells(L) |->
                              IF FromList(letter_state.fuel_map)[c] = Fixed(FUEL_FULL)
                              THEN 0 ELSE -1]]

RestoredLetter(L, letter_state) ==
    [L EXCEPT !.fuel_map = FromList(letter_state.fuel_map),
              !.heat_map = FromList(letter_state.heat_map),
              !.hot_acc = [c \in Cells(L) |->
                              IF FromList(letter_state.fuel_map)[c] = Fixed(FUEL_FULL)
                              THEN 0 ELSE -1]]

\* the loop of restore_state from saved slot i on: the letters it leaves and
\* whether it ran to its end (FALSE: letters[i] raised IndexError, which the
\* except clause turns into the result False)
RECURSIVE RestoreLoop(_, _, _)
\* faulty variant: the target is indexed before the saved slot is tested for None
RestoreLoopIndexFirst(saved, letters, i) ==
    IF i > Len(saved) THEN [ok |-> TRUE, letters |-> letters]
    ELSE IF i > Len(letters) THEN [ok |-> FALSE, letters |-> letters]
    ELSE IF ~IsLetter(letters[i]) \/ ~IsLetter(saved[i])
    THEN RestoreLoop(saved, letters, i + 1)
    ELSE RestoreLoop(saved,
                     [letters EXCEPT ![i] = RestoredLetter(letters[i], saved[i])],
                     i + 1)

RestoreLoop(saved, letters, i) ==
    IF i > Len(saved) THEN [ok |-> TRUE, letters |-> letters]
    ELSE IF ~IsLetter(saved[i]) THEN RestoreLoop(saved, letters, i + 1)
    ELSE IF i > Len(letters) THEN [ok |-> FALSE, letters |-> letters]
    ELSE IF ~IsLetter(letters[i]) THEN RestoreLoop(saved, letters, i + 1)
    ELSE RestoreLoop(saved,
                     [letters EXCEPT ![i] = RestoredLetter(letters[i], saved[i])],
                     i + 1)

\* faulty variant: a missing identifier is taken for an empty snapshot
restore_state_default(st, identifier, bt) ==
    IF identifier \notin DOMAIN st
    THEN [ok |-> TRUE, bt |-> bt]
    ELSE LET r == RestoreLoop(st[identifier].letters_state, bt.letters, 1)
         IN  [ok |-> r.ok, bt |-> [bt EXCEPT !.letters = r.letters]]

\* BurningStateManager.restore_state: its result and the object after it
restore_state(st, identifier, bt) ==
    IF identifier \notin DOMAIN st
    THEN [ok |-> FALSE, bt |-> bt]
    ELSE LET r == RestoreLoop(st[identifier].letters_state, bt.letters, 1)
         IN  [ok |-> r.ok, bt |-> [bt EXCEPT !.letters = r.letters]]

\* faulty variant: clear_state empties the store
clear_state_everything(st, identifier) == [k \in {} |-> NoLetter]

\* clear_state
clear_state(st, identifier) == [k \in DOMAIN st \ {identifier} |-> st[k]]

\* clear_all_states
clear_all_states(st) == [k \in {} |-> NoLetter]

(***************************************************************************)
(* Screen transitions (main_menu.py, settings_screen.py).  burn_progress   *)
(* and the alphas are fixed-point numbers like heat and fuel, time is in   *)
(* ticks.  Of a particle only its life is kept, in tenths: position,       *)
(* velocity, size and colour are read by draw alone.                       *)
(***************************************************************************)
burn_speed == 2
black_fade_speed == 8
fade_speed == 3
ALPHA_OPAQUE == 255
\* life lost per second, in tenths: 2.5, 1.2 and 3.0
FIRE_LIFE_RATE == 25
SMOKE_LIFE_RATE == 12
SPARK_LIFE_RATE == 30
ProgressFull == Fixed(1)
LifeFull == 10 * Fixed(1)
ParticleKinds == {"fire", "smoke", "spark"}

\* FadeTransition.__init__
NewFadeTransition ==
    [fade_alpha |-> 0, complete |-> FALSE, active |-> FALSE]

\* FadeTransition.start
Fade_start(f) ==
    [f EXCEPT !.active = TRUE, !.complete = FALSE, !.fade_alpha = 0]

\* faulty variant: the alpha is not clamped at 255
Fade_update_unclamped(f, dt) ==
    IF ~f.active THEN f
    ELSE LET a == f.fade_alpha + fade_speed * dt * ALPHA_OPAQUE
         IN  IF a >= Fixed(ALPHA_OPAQUE)
             THEN [f EXCEPT !.fade_alpha = a, !.complete = TRUE]
             ELSE [f EXCEPT !.fade_alpha = a]

\* FadeTransition.update
Fade_update(f, dt) ==
    IF ~f.active THEN f
    ELSE LET a == f.fade_alpha + fade_speed * dt * ALPHA_OPAQUE
         IN  IF a >= Fixed(ALPHA_OPAQUE)
             THEN [f EXCEPT !.fade_alpha = Fixed(ALPHA_OPAQUE), !.complete = TRUE]
             ELSE [f EXCEPT !.fade_alpha = a]

\* ScreenBurnTransition.__init__ of module cls
NewScreenBurnTransition(cls) ==
    [cls |-> cls,
     burn_progress |-> 0,
     complete |-> FALSE,
     active |-> FALSE,
     time |-> 0,
     reverse_mode |-> FALSE,
     black_fade_alpha |-> 0,
     fire_particles |-> <<>>,
     smoke_particles |-> <<>>,
     ember_sparks |-> <<>>]

\* faulty variant: start leaves the particles of the last run in the lists
ScreenBurn_start_keeps_particles(t, reverse_mode) ==
    [t EXCEPT !.active = TRUE,
              !.reverse_mode = reverse_mode,
              !.burn_progress = IF ~reverse_mode THEN 0 ELSE ProgressFull,
              !.complete = FALSE,
              !.time = 0,
              !.black_fade_alpha = 0]

\* faulty variant: start ignores reverse_mode when it places the front
ScreenBurn_start_from_centre(t, reverse_mode) ==
    [t EXCEPT !.active = TRUE,
              !.reverse_mode = reverse_mode,
              !.burn_progress = 0,
              !.complete = FALSE,
              !.time = 0,
              !.black_fade_alpha = 0,
              !.fire_particles = <<>>,
              !.smoke_particles = <<>>,
              !.ember_sparks = <<>>]

\* ScreenBurnTransition.start
ScreenBurn_start(t, reverse_mode) ==
    [t EXCEPT !.active = TRUE,
              !.reverse_mode = reverse_mode,
              !.burn_progress = IF ~reverse_mode THEN 0 ELSE ProgressFull,
              !.complete = FALSE,
              !.time = 0,
              !.black_fade_alpha = 0,
              !.fire_particles = <<>>,
              !.smoke_particles = <<>>,
              !.ember_sparks = <<>>]

\* faulty variant: the overlay fades in from the first frame of the burn
update_black_fade_always(t, dt) ==
    [t EXCEPT !.black_fade_alpha =
         Min(@ + black_fade_speed * dt * ALPHA_OPAQUE, Fixed(ALPHA_OPAQUE))]

\* _update_black_fade: the transition after it (it returns t.complete)
update_black_fade(t, dt) ==
    IF ~t.complete THEN t
    ELSE [t EXCEPT !.black_fade_alpha =
             Min(@ + black_fade_speed * dt * ALPHA_OPAQUE, Fixed(ALPHA_OPAQUE))]

\* faulty variant: the burn is complete only once progress has passed the end
update_burn_progress_strict(t, dt) ==
    IF t.reverse_mode
    THEN LET p == t.burn_progress - burn_speed * dt
         IN  IF p < 0 THEN [t EXCEPT !.burn_progress = 0, !.complete = TRUE]
             ELSE [t EXCEPT !.burn_progress = p]
    ELSE LET p == t.burn_progress + burn_speed * dt
         IN  IF p > ProgressFull
             THEN [t EXCEPT !.burn_progress = ProgressFull, !.complete = TRUE]
             ELSE [t EXCEPT !.burn_progress = p]

\* _update_burn_progress
update_burn_progress(t, dt) ==
    IF t.reverse_mode
    THEN LET p == t.burn_progress - burn_speed * dt
         IN  IF p <= 0 THEN [t EXCEPT !.burn_progress = 0, !.complete = TRUE]
             ELSE [t EXCEPT !.burn_progress = p]
    ELSE LET p == t.burn_progress + burn_speed * dt
         IN  IF p >= ProgressFull
             THEN [t EXCEPT !.burn_progress = ProgressFull, !.complete = TRUE]
             ELSE [t EXCEPT !.burn_progress = p]

\* a spawn: the roll succeeded (burn_points always holds 120 points)
Spawned(ps, hit) == IF hit THEN Append(ps, LifeFull) ELSE ps

\* the particles after ageing by dt, the dead ones removed
Aged(ps, rate, dt) ==
    SelectSeq([i \in 1 .. Len(ps) |-> ps[i] - rate * dt], LAMBDA l : l > 0)

\* _spawn_fire_particles .. _update_spark_particles; rolls: the kinds whose
\* spawn roll succeeds
StepParticles(t, dt, rolls) ==
    [t EXCEPT !.fire_particles =
                  Aged(Spawned(@, "fire" \in rolls), FIRE_LIFE_RATE, dt),
              !.smoke_particles =
                  Aged(Spawned(@, "smoke" \in rolls), SMOKE_LIFE_RATE, dt),
              !.ember_sparks =
                  Aged(Spawned(@, "spark" \in rolls), SPARK_LIFE_RATE, dt)]

\* ScreenBurnTransition.update of main_menu.py
MainMenu_ScreenBurn_update(t, dt, rolls) ==
    IF ~t.active THEN t
    ELSE LET t1 == [t EXCEPT !.time = @ + dt]
         IN  IF t1.complete
             THEN update_black_fade(t1, dt)
             ELSE StepParticles(update_burn_progress(update_black_fade(t1, dt), dt),
                                dt, rolls)

\* faulty variant: the particles go on ageing while the overlay fades in
Settings_ScreenBurn_update_ageing(t, dt, rolls) ==
    IF ~t.active THEN t
    ELSE LET t1 == [t EXCEPT !.time = @ + dt]
         IN  IF t1.complete
             THEN StepParticles(update_black_fade(t1, dt), dt, {})
             ELSE StepParticles(update_burn_progress(update_black_fade(t1, dt), dt),
                                dt, rolls)

\* ScreenBurnTransition.update of settings_screen.py, which has the fade and
\* the progress step inline
Settings_ScreenBurn_update(t, dt, rolls) ==
    IF ~t.active THEN t
    ELSE LET t1 == [t EXCEPT !.time = @ + dt]
         IN  IF t1.complete
             THEN LET a == t1.black_fade_alpha + black_fade_speed * dt * ALPHA_OPAQUE
                  IN  IF a >= Fixed(ALPHA_OPAQUE)
                      THEN [t1 EXCEPT !.black_fade_alpha = Fixed(ALPHA_OPAQUE)]
                      ELSE [t1 EXCEPT !.black_fade_alpha = a]
             ELSE LET p == IF t1.reverse_mode
                           THEN t1.burn_progress - burn_speed * dt
                           ELSE t1.burn_progress + burn_speed * dt
                      t2 == IF t1.reverse_mode
                            THEN IF p <= 0
                                 THEN [t1 EXCEPT !.burn_progress = 0, !.complete = TRUE]
                                 ELSE [t1 EXCEPT !.burn_progress = p]
                            ELSE IF p >= ProgressFull
                                 THEN [t1 EXCEPT !.burn_progress = ProgressFull,
                                                 !.complete = TRUE]
                                 ELSE [t1 EXCEPT !.burn_progress = p]
                  IN  StepParticles(t2, dt, rolls)

\* update of the transition's own class
ScreenBurn_update(t, dt, rolls) ==
    IF t.cls = "main_menu"
    THEN MainMenu_ScreenBurn_update(t, dt, rolls)
    ELSE Settings_ScreenBurn_update(t, dt, rolls)

(***************************************************************************)
(* The scenes that own the transitions: MainMenu and SettingsScreen.  Of a *)
(* scene the fields that steer its run loop are kept; the title, embers,   *)
(* flame trail, buttons' glow, sliders and toggles, which the same         *)
(* handlers animate, feed nothing back into them.  exits is history: the   *)
(* statements that have set running to False.                              *)
(***************************************************************************)
\* Python's None where a string may stand
NoneStr == "None"
Buttons == {"New Game", "Continue", "Settings", "Exit"}
\* an event of pygame.event.get(); a click carries the hovered buttons
Events ==
    {[type |-> "QUIT"], [type |-> "F12"], [type |-> "ESC"]}
        \cup {[type |-> "CLICK", hovered |-> h] : h \in {{}} \cup {{b} : b \in Buttons}}

\* MainMenu.__init__
NewMainMenu ==
    [kind |-> "main_menu",
     running |-> TRUE,
     screen_burn |-> NewScreenBurnTransition("main_menu"),
     fade_transition |-> NewFadeTransition,
     transitioning |-> FALSE,
     next_scene |-> NoneStr,
     selected_option |-> NoneStr,
     pc |-> "events", dt |-> 0, exits |-> {}, seen |-> {}]

\* SettingsScreen.__init__
NewSettingsScreen ==
    [kind |-> "settings",
     running |-> TRUE,
     screen_burn |-> NewScreenBurnTransition("settings_screen"),
     transitioning |-> FALSE,
     pc |-> "events", dt |-> 0, exits |-> {}, seen |-> {}]

get_next_scene_name(button_text) ==
    CASE button_text = "Settings" -> "settings"
      [] button_text = "New Game" -> "new_game"
      [] button_text = "Continue" -> "continue"
      [] button_text = "Exit" -> "exit"
      [] OTHER -> "main_menu"

\* the body of the event loop of MainMenu.handle_events for one event
MainMenu_handle_event(m, e) ==
    CASE e.type = "QUIT" ->
            [m EXCEPT !.running = FALSE, !.selected_option = "Exit",
                      !.exits = @ \cup {"quit"}]
      [] e.type = "F12" -> m
      [] e.type = "ESC" ->
            IF ~m.transitioning
            THEN [m EXCEPT !.selected_option = "Exit",
                           !.transitioning = TRUE,
                           !.fade_transition = Fade_start(@)]
            ELSE m
      [] e.type = "CLICK" ->
            IF e.hovered = {} \/ m.transitioning THEN m
            ELSE LET text == CHOOSE b \in e.hovered : TRUE
                 IN  IF text = "Exit"
                     THEN [m EXCEPT !.selected_option = text,
                                    !.transitioning = TRUE,
                                    !.fade_transition = Fade_start(@)]
                     ELSE [m EXCEPT !.selected_option = text,
                                    !.transitioning = TRUE,
                                    !.screen_burn = ScreenBurn_start(@, FALSE),
                                    !.next_scene = get_next_scene_name(text)]

\* faulty variant: ESC starts the inward burn again during a transition
Settings_handle_event_restart(m, e) ==
    CASE e.type = "QUIT" -> [m EXCEPT !.running = FALSE, !.exits = @ \cup {"quit"}]
      [] e.type = "F12" -> m
      [] e.type = "ESC" ->
            [m EXCEPT !.transitioning = TRUE,
                      !.screen_burn = ScreenBurn_start(@, TRUE)]
      [] OTHER -> m

\* the body of the event loop of SettingsScreen.handle_events for one event
Settings_handle_event(m, e) ==
    CASE e.type = "QUIT" -> [m EXCEPT !.running = FALSE, !.exits = @ \cup {"quit"}]
      [] e.type = "F12" -> m
      [] e.type = "ESC" ->
            IF ~m.transitioning
            THEN [m EXCEPT !.transitioning = TRUE,
                           !.screen_burn = ScreenBurn_start(@, TRUE)]
            ELSE m
      [] OTHER -> m

\* handle_events: the events of the frame, in order
RECURSIVE handle_events(_, _)
handle_events(m, events) ==
    IF events = <<>> THEN m
    ELSE handle_events(IF m.kind = "main_menu"
                       THEN MainMenu_handle_event(m, Head(events))
                       ELSE Settings_handle_event(m, Head(events)),
                       Tail(events))

\* faulty variant: the scene leaves as soon as the burn is complete
BurnDoneAtComplete(t) == t.complete

\* the exit test of the burn path in both update methods
BurnDone(t) == t.complete /\ t.black_fade_alpha >= Fixed(ALPHA_OPAQUE)

\* MainMenu.update: the transition part
MainMenu_update(m, dt, rolls) ==
    IF ~m.transitioning THEN m
    ELSE IF m.fade_transition.active
    THEN LET f == Fade_update(m.fade_transition, dt)
         IN  IF f.complete
             THEN [m EXCEPT !.fade_transition = f, !.running = FALSE,
                            !.exits = @ \cup {"fade"}]
             ELSE [m EXCEPT !.fade_transition = f]
    ELSE LET t == ScreenBurn_update(m.screen_burn, dt, rolls)
         IN  IF BurnDone(t)
             THEN [m EXCEPT !.screen_burn = t, !.running = FALSE,
                            !.exits = @ \cup {"burn"}]
             ELSE [m EXCEPT !.screen_burn = t]

\* SettingsScreen.update: the transition part
Settings_update(m, dt, rolls) ==
    IF ~m.transitioning THEN m
    ELSE LET t == ScreenBurn_update(m.screen_burn, dt, rolls)
         IN  IF BurnDone(t)
             THEN [m EXCEPT !.screen_burn = t, !.running = FALSE,
                            !.exits = @ \cup {"burn"}]
             ELSE [m EXCEPT !.screen_burn = t]

(***************************************************************************)
(* The burning-text world: BurningText objects and the snapshot store.     *)
(***************************************************************************)
VARIABLES
    objs,       \* the BurningText objects
    states,     \* burning_state_manager.states
    saved_src,  \* history: per id ever saved, the source's letters when last saved
    lastOp,     \* history: the last call and its result
    ops,        \* history: calls made so far
    tr,         \* a ScreenBurnTransition driven on its own
    run,        \* history: the dt of the run of tr or fd, the updates since its start
    sc,         \* the scene that is running, with its position in run()
    fd          \* a FadeTransition driven on its own

vars == <<objs, states, saved_src, lastOp, ops, tr, run, sc, fd>>
textVars == <<objs, states, saved_src, lastOp, ops>>
sceneVars == <<tr, run, sc, fd>>

ObjIds == {1, 2}
Ids == {"SCARRED WINDS", "X"}
Texts == {<<"A">>, <<"A", "B">>, <<" ", "A">>}
\* the step lengths tried: none, half a second, twice that
LetterDts == {0, TicksPerSec \div 2, 2 * (TicksPerSec \div 2)}
Radii == {0, 1, 2}
\* heat centres for add_heat, and pointer positions for BurningText.update
Points == {<<0, 0>>, <<1, 1>>}
MousePoints == {<<0, 0>>}

\* a call in the burning-text world: counted, and no scene runs meanwhile
Budget == ops < MaxOps /\ ops' = ops + 1 /\ UNCHANGED sceneVars

\* add_heat on letter i of object o
AddHeat(o, i, p, radius, dt) ==
    /\ Budget
    /\ IsLetter(objs[o].letters[i])
    /\ objs' = [objs EXCEPT ![o].letters[i] = add_heat(@, p[1], p[2], radius, dt)]
    /\ lastOp' = [op |-> "add_heat", obj |-> o, idx |-> i]
    /\ UNCHANGED <<states, saved_src>>

\* Letter.update on letter i of object o
LetterUpdate(o, i, dt, rolls, tex) ==
    /\ Budget
    /\ IsLetter(objs[o].letters[i])
    /\ objs' = [objs EXCEPT ![o].letters[i] = update(@, dt, rolls, tex)]
    /\ lastOp' = [op |-> "update", obj |-> o, idx |-> i,
                  spread |-> Spreaders(objs[o].letters[i], dt, rolls)]
    /\ UNCHANGED <<states, saved_src>>

\* the textures the random generator may yield in an update of L, if that
\* update generates one
TextureChoices(L, dt) ==
    IF NeedsTexture(L, ConsumedFuel(L, dt)) THEN TextureIds ELSE {None}

\* the same for one BurningText.update
TextTextureChoices(bt, mouse_pos, dt) ==
    IF \E i \in 1 .. Len(bt.letters) :
          /\ IsLetter(bt.letters[i])
          /\ TextureChoices(PointerHeated(bt.letters[i], mouse_pos, dt), dt) # {None}
    THEN TextureIds ELSE {None}

\* the spread rolls tried for one BurningText.update: the rolls of all the
\* burning cells succeed or all fail (Letter.update is stepped under
\* every subset of rolls in Spec)
RollChoices(bt, mouse_pos, dt) ==
    {[i \in 1 .. Len(bt.letters) |->
         IF all /\ IsLetter(bt.letters[i])
         THEN BurningMask(PointerHeated(bt.letters[i], mouse_pos, dt), dt)
         ELSE {}] : all \in BOOLEAN}

\* BurningText.update of object o
TextUpdate(o, mouse_pos, dt, rolls, tex) ==
    /\ Budget
    /\ objs' = [objs EXCEPT ![o] = BurningText_update(@, mouse_pos, dt, rolls, tex)]
    /\ lastOp' = [op |-> "text_update", obj |-> o]
    /\ UNCHANGED <<states, saved_src>>

\* BurningText.draw of object o: it reads the maps and the cached texture
Draw(o) ==
    /\ Budget
    /\ lastOp' = [op |-> "draw", obj |-> o]
    /\ UNCHANGED <<objs, states, saved_src>>

\* BurningText.save_state
Save(identifier, o) ==
    /\ Budget
    /\ states' = save_state(states, identifier, objs[o])
    /\ saved_src' = [k \in DOMAIN saved_src \cup {identifier} |->
                        IF k = identifier THEN objs[o].letters ELSE saved_src[k]]
    /\ lastOp' = [op |-> "save", obj |-> o, id |-> identifier]
    /\ UNCHANGED objs

\* BurningText.restore_state
Restore(identifier, o) ==
    /\ Budget
    /\ LET r == restore_state(states, identifier, objs[o])
       IN  /\ objs' = [objs EXCEPT ![o] = r.bt]
           /\ lastOp' = [op |-> "restore", obj |-> o, id |-> identifier,
                         result |-> r.ok,
                         \* the target was freshly constructed, from the saved text
                         fresh |-> /\ identifier \in DOMAIN states
                                   /\ objs[o] = NewBurningText(states[identifier].text)]
    /\ UNCHANGED <<states, saved_src>>

Clear(identifier) ==
    /\ Budget
    /\ states' = clear_state(states, identifier)
    /\ lastOp' = [op |-> "clear", id |-> identifier]
    /\ UNCHANGED <<objs, saved_src>>

ClearAll ==
    /\ Budget
    /\ states' = clear_all_states(states)
    /\ lastOp' = [op |-> "clear_all"]
    /\ UNCHANGED <<objs, saved_src>>

(***************************************************************************)
(* Spec: one BurningText with its letters under heat, simulation steps,    *)
(* drawing and snapshots of itself.                                        *)
(***************************************************************************)
\* no scene has run yet
ScenesIdle ==
    /\ tr = NewScreenBurnTransition("main_menu")
    /\ run = [dt |-> 0, frames |-> 0]
    /\ sc = NewMainMenu
    /\ fd = NewFadeTransition

\* no call has been made in the burning-text world
TextIdle ==
    /\ objs = [o \in ObjIds |-> NewBurningText(<<"A">>)]
    /\ states = [k \in {} |-> NoLetter]
    /\ saved_src = [k \in {} |-> <<>>]
    /\ lastOp = [op |-> "init"]
    /\ ops = 0

Init == TextIdle /\ ScenesIdle

Next ==
    \/ \E p \in Points, r \in Radii, dt \in LetterDts :
         \E i \in 1 .. Len(objs[1].letters) : AddHeat(1, i, p, r, dt)
    \/ \E dt \in LetterDts :
         \E i \in 1 .. Len(objs[1].letters) :
            \E rolls \in SUBSET BurningMask(objs[1].letters[i], dt),
               tex \in TextureChoices(objs[1].letters[i], dt) :
               LetterUpdate(1, i, dt, rolls, tex)
    \/ Draw(1)
    \/ Save("X", 1)
    \/ Restore("X", 1)

Spec == Init /\ [][Next]_vars

(***************************************************************************)
(* SpecStore: two BurningText objects, built from any of the texts, burnt  *)
(* by pointer heat, saved to and restored from the snapshot store.         *)
(***************************************************************************)
NextStore ==
    \/ ops < MaxStoreOps /\ \E o \in ObjIds, p \in MousePoints :
         \E rolls \in RollChoices(objs[o], p, TicksPerSec),
            tex \in TextTextureChoices(objs[o], p, TicksPerSec) :
            TextUpdate(o, p, TicksPerSec, rolls, tex)
    \/ ops < MaxStoreOps /\ \E identifier \in Ids, o \in ObjIds : Save(identifier, o)
    \/ ops < MaxStoreOps /\ \E identifier \in Ids, o \in ObjIds : Restore(identifier, o)
    \/ ops < MaxStoreOps /\ \E identifier \in Ids : Clear(identifier)
    \/ ops < MaxStoreOps /\ ClearAll

InitStore ==
    /\ objs \in [ObjIds -> {NewBurningText(t) : t \in Texts}]
    /\ states = [k \in {} |-> NoLetter]
    /\ saved_src = [k \in {} |-> <<>>]
    /\ lastOp = [op |-> "init"]
    /\ ops = 0
    /\ ScenesIdle

SpecStore == InitStore /\ [][NextStore]_vars

(***************************************************************************)
(* SpecBlank: the calls of SpecStore where the first BurningText is built  *)
(* from empty text or from spaces only, the second from any text.          *)
(***************************************************************************)
BlankTexts == {<<>>, <<" ">>, <<" ", " ">>}

InitBlank ==
    /\ objs \in [ObjIds -> {NewBurningText(t) : t \in BlankTexts \cup Texts}]
    /\ objs[1].text \in BlankTexts
    /\ states = [k \in {} |-> NoLetter]
    /\ saved_src = [k \in {} |-> <<>>]
    /\ lastOp = [op |-> "init"]
    /\ ops = 0
    /\ ScenesIdle

SpecBlank == InitBlank /\ [][NextStore]_vars

(***************************************************************************)
(* SpecBurn: one ScreenBurnTransition of either module, started in either  *)
(* mode and updated with the dt of its run.  No spawn roll succeeds here:  *)
(* the particles feed nothing back into progress, complete or the alpha.   *)
(* A behaviour drives either the burn or a FadeTransition, as a scene      *)
(* does, the fade too with the dt of its run.                              *)
(***************************************************************************)
\* the frame lengths tried: none, 1/240 s, 1/30 s, a quarter and a third of a
\* second (the last one oversteps the end of the burn)
BurnDts ==
    {0, TicksPerSec \div 240, TicksPerSec \div 30, TicksPerSec \div 4,
     TicksPerSec \div 3}
NoRolls == {{}}

BurnStart(reverse_mode, dt) ==
    /\ ~fd.active
    /\ tr' = ScreenBurn_start(tr, reverse_mode)
    /\ run' = [dt |-> dt, frames |-> 0]
    /\ UNCHANGED <<textVars, sc, fd>>

BurnUpdate(rolls) ==
    /\ ~fd.active
    /\ run.frames < MaxFrames
    /\ tr' = ScreenBurn_update(tr, run.dt, rolls)
    /\ run' = [run EXCEPT !.frames = @ + 1]
    /\ UNCHANGED <<textVars, sc, fd>>

FadeStart(dt) ==
    /\ ~tr.active
    /\ fd' = Fade_start(fd)
    /\ run' = [dt |-> dt, frames |-> 0]
    /\ UNCHANGED <<textVars, tr, sc>>

FadeUpdate ==
    /\ ~tr.active
    /\ fd.active
    /\ run.frames < MaxFrames
    /\ fd' = Fade_update(fd, run.dt)
    /\ run' = [run EXCEPT !.frames = @ + 1]
    /\ UNCHANGED <<textVars, tr, sc>>

InitBurn ==
    /\ TextIdle
    /\ fd = NewFadeTransition
    /\ tr \in {NewScreenBurnTransition("main_menu"),
               NewScreenBurnTransition("settings_screen")}
    /\ run \in [dt : BurnDts, frames : {0}]
    /\ sc = NewMainMenu

NextBurn ==
    \/ \E reverse_mode \in BOOLEAN, dt \in BurnDts : BurnStart(reverse_mode, dt)
    \/ \E rolls \in NoRolls : BurnUpdate(rolls)
    \/ \E dt \in BurnDts : FadeStart(dt)
    \/ FadeUpdate

SpecBurn == InitBurn /\ [][NextBurn]_vars

(***************************************************************************)
(* SpecScene: the run loops of MainMenu and SettingsScreen under main():   *)
(* each frame takes its dt and its events, then update, then draw.         *)
(***************************************************************************)
\* the frame lengths tried: 1/60 s, 1/30 s, a quarter of a second
SceneDts == {TicksPerSec \div 60, TicksPerSec \div 30, TicksPerSec \div 4}

EventLists ==
    UNION {[1 .. n -> Events] : n \in 0 .. MaxEvents}

\* what an event is to the handlers: a QUIT, an ESC key press, a click with
\* a button under the pointer, or an event no branch changes state for
EventClass(e) ==
    CASE e.type \in {"QUIT", "ESC"} -> e.type
      [] e.type = "CLICK" /\ e.hovered # {} -> "CLICK_BUTTON"
      [] OTHER -> "OTHER"

\* run(): clock.tick and handle_events; seen is history, the classes of the
\* frame's events, kept until the frame's update
SceneEvents(dt, events) ==
    /\ sc.pc = "events"
    /\ sc' = [handle_events([sc EXCEPT !.dt = dt], events)
                 EXCEPT !.pc = "update",
                        !.seen = {EventClass(events[i]) : i \in DOMAIN events}]
    /\ UNCHANGED <<textVars, tr, run, fd>>

\* run(): update(dt); the frame's dt is not read after it
SceneUpdate(rolls) ==
    /\ sc.pc = "update"
    /\ sc' = [(IF sc.kind = "main_menu"
               THEN MainMenu_update(sc, sc.dt, rolls)
               ELSE Settings_update(sc, sc.dt, rolls))
                 EXCEPT !.pc = "draw", !.dt = 0, !.seen = {}]
    /\ UNCHANGED <<textVars, tr, run, fd>>

\* run(): draw(), and the loop test that follows it
SceneDraw ==
    /\ sc.pc = "draw"
    /\ sc' = [sc EXCEPT !.pc = IF sc.running THEN "events" ELSE "returned"]
    /\ UNCHANGED <<textVars, tr, run, fd>>

\* main(): the scene that follows a returned one
SceneEnter ==
    /\ sc.pc = "returned"
    /\ \/ sc.kind = "main_menu" /\ sc.selected_option = "Settings"
          /\ sc' = NewSettingsScreen
       \/ sc.kind = "settings" /\ sc' = NewMainMenu
    /\ UNCHANGED <<textVars, tr, run, fd>>

InitScene == TextIdle /\ ScenesIdle

NextScene ==
    \/ \E dt \in SceneDts, events \in EventLists : SceneEvents(dt, events)
    \/ \E rolls \in NoRolls : SceneUpdate(rolls)
    \/ SceneDraw
    \/ SceneEnter

SpecScene == InitScene /\ [][NextScene]_vars

\* the run loops never block: clock.tick returns, and each of handle_events,
\* update and draw ends, so a frame that can be taken is taken
SpecSceneLive == SpecScene /\ WF_vars(NextScene)

(***************************************************************************)
(* SpecParticles: a behaviour drives either one Letter with its particles, *)
(* under add_heat and update, or one ScreenBurnTransition whose spawn      *)
(* rolls may succeed.                                                      *)
(***************************************************************************)
\* the spawn rolls that may succeed in an update of L: each for a burning
\* cell and a particle type, with the lifetime the new particle draws
SpawnCandidates(L, dt) ==
    UNION {{[cell |-> c, type |-> t, lifetime |-> l] : l \in Lifetimes(t)} :
              <<c, t>> \in BurningMask(L, dt) \X ParticleTypes}

\* the charcoal texture of a step that generates one: here always the first
FirstTexture(L, dt) ==
    IF NeedsTexture(L, ConsumedFuel(L, dt)) THEN {1} ELSE {None}

\* none of them succeeds, or one does
SpawnChoices(L, dt) == {{}} \cup {{sp} : sp \in SpawnCandidates(L, dt)}

\* add_heat on letter i of object o, the call kept as history
HeatCall(o, i, p, radius, dt) ==
    /\ ops < MaxLetterOps /\ ops' = ops + 1
    /\ tr = NewScreenBurnTransition("main_menu") /\ run.frames = 0
    /\ IsLetter(objs[o].letters[i])
    /\ objs' = [objs EXCEPT ![o].letters[i] = add_heat(@, p[1], p[2], radius, dt)]
    /\ lastOp' = [op |-> "add_heat", obj |-> o, idx |-> i,
                  p |-> p, radius |-> radius, dt |-> dt]
    /\ UNCHANGED <<states, saved_src, sceneVars>>

\* Letter.update on letter i of object o, with its particles; the burning
\* cells, those that spread and the spawns are kept as history
StepCall(o, i, dt, rolls, tex, sps) ==
    /\ ops < MaxLetterOps /\ ops' = ops + 1
    /\ tr = NewScreenBurnTransition("main_menu") /\ run.frames = 0
    /\ IsLetter(objs[o].letters[i])
    /\ objs' = [objs EXCEPT ![o].letters[i] = Letter_update(@, dt, rolls, tex, sps)]
    /\ lastOp' = [op |-> "update", obj |-> o, idx |-> i, dt |-> dt,
                  burning |-> BurningMask(objs[o].letters[i], dt),
                  spread |-> Spreaders(objs[o].letters[i], dt, rolls),
                  sps |-> sps]
    /\ UNCHANGED <<states, saved_src, sceneVars>>

\* the step lengths of the letter: half a second, one second, and two seconds
\* (in which a burning cell burns out)
ParticleDts == {TicksPerSec \div 2, TicksPerSec, 2 * TicksPerSec}

\* the frame lengths of the transition: none, an eighth and a quarter of a second
SparkDts == {0, TicksPerSec \div 8, TicksPerSec \div 4}

\* start; over is history: the transition it was called on had run
SparkStart(reverse_mode, dt) ==
    /\ ops = 0
    /\ tr' = ScreenBurn_start(tr, reverse_mode)
    /\ run' = [dt |-> dt, frames |-> 0, over |-> tr.time > 0]
    /\ UNCHANGED <<textVars, sc, fd>>

\* update; rolls: the kinds whose spawn roll succeeds
SparkUpdate(rolls) ==
    /\ ops = 0
    /\ run.frames < MaxSparkFrames
    /\ tr' = ScreenBurn_update(tr, run.dt, rolls)
    /\ run' = [run EXCEPT !.frames = @ + 1]
    /\ UNCHANGED <<textVars, sc, fd>>

InitParticles ==
    /\ TextIdle
    /\ fd = NewFadeTransition
    /\ tr \in {NewScreenBurnTransition("main_menu"),
               NewScreenBurnTransition("settings_screen")}
    /\ run = [dt |-> 0, frames |-> 0, over |-> FALSE]
    /\ sc = NewMainMenu

NextParticles ==
    \/ \E p \in MousePoints, r \in Radii : HeatCall(1, 1, p, r, TicksPerSec)
    \/ /\ ops < MaxLetterOps
       /\ \E dt \in ParticleDts :
         \E rolls \in {{}, BurningMask(objs[1].letters[1], dt)},
            tex \in FirstTexture(objs[1].letters[1], dt),
            sps \in SpawnChoices(objs[1].letters[1], dt) :
            StepCall(1, 1, dt, rolls, tex, sps)
    \/ \E reverse_mode \in BOOLEAN, dt \in SparkDts : SparkStart(reverse_mode, dt)
    \/ ops = 0 /\ \E rolls \in SUBSET ParticleKinds : SparkUpdate(rolls)

SpecParticles == InitParticles /\ [][NextParticles]_vars

(***************************************************************************)
(* SpecAlias: two BurningText objects and the store, with the sharing of   *)
(* buffers made explicit.  Letter.add_heat and Letter.update write into    *)
(* heat_map and fuel_map in place (-=, +=, np.clip(out=...)), so a list or *)
(* array that is the same Python object as a letter's array changes with   *)
(* it.  A store entry carries views, the objects whose letters' arrays are *)
(* its lists, and as history restores, the restores made from it (0, 1, 2  *)
(* or more).                                                               *)
(***************************************************************************)
\* faulty variant: the arrays themselves are put into the entry
tolist_views_kept(o) == {o}

\* fuel_map.tolist(), heat_map.tolist() of object o's letters: the objects
\* whose arrays are the lists returned; tolist builds new lists
tolist_views(o) == {}

\* np.array(letter_state[...]) assigned to object o's letters: the objects
\* whose arrays are the entry's lists afterwards; np.array copies
np_array_views(o) == {}

\* the grids of letters written over those of mine, letter by letter
WithGridsOf(mine, letters) ==
    [i \in 1 .. Len(mine) |->
        IF i <= Len(letters) /\ IsLetter(mine[i]) /\ IsLetter(letters[i])
        THEN [mine[i] EXCEPT !.heat_map = letters[i].heat_map,
                             !.fuel_map = letters[i].fuel_map]
        ELSE mine[i]]

\* the store after object o's arrays, now those of bt, were written in place
WriteThrough(st, o, bt) ==
    [k \in DOMAIN st |->
        IF o \in st[k].views
        THEN [st[k] EXCEPT !.letters_state =
                 [i \in 1 .. Len(st[k].letters_state) |->
                     IF /\ i <= Len(bt.letters)
                        /\ IsLetter(st[k].letters_state[i])
                        /\ IsLetter(bt.letters[i])
                     THEN [st[k].letters_state[i] EXCEPT
                              !.fuel_map = LetterState(bt.letters[i]).fuel_map,
                              !.heat_map = LetterState(bt.letters[i]).heat_map]
                     ELSE st[k].letters_state[i]]]
        ELSE st[k]]

\* the objects that share their arrays with object o through an entry
Mates(st, o) == UNION {st[k].views : k \in {j \in DOMAIN st : o \in st[j].views}} \ {o}

\* BurningText.update of object o
AliasFrame(o, mouse_pos, dt, rolls, tex) ==
    /\ ops < MaxAliasOps /\ ops' = ops + 1
    /\ LET bt == BurningText_update(objs[o], mouse_pos, dt, rolls, tex)
       IN  /\ objs' = [q \in ObjIds |->
                         IF q = o THEN bt
                         ELSE IF q \in Mates(states, o)
                         THEN [objs[q] EXCEPT !.letters = WithGridsOf(@, bt.letters)]
                         ELSE objs[q]]
           /\ states' = WriteThrough(states, o, bt)
    /\ lastOp' = [op |-> "text_update", obj |-> o]
    /\ UNCHANGED <<saved_src, sceneVars>>

\* save_state(identifier, objs[o])
AliasSave(identifier, o) ==
    /\ ops < MaxAliasOps /\ ops' = ops + 1
    /\ states' = [k \in DOMAIN states \cup {identifier} |->
                     IF k = identifier
                     THEN [text |-> StateData(objs[o]).text,
                           letters_state |-> StateData(objs[o]).letters_state,
                           views |-> tolist_views(o),
                           restores |-> 0]
                     ELSE states[k]]
    /\ saved_src' = [k \in DOMAIN saved_src \cup {identifier} |->
                        IF k = identifier THEN objs[o].letters ELSE saved_src[k]]
    /\ lastOp' = [op |-> "save", obj |-> o, id |-> identifier]
    /\ UNCHANGED <<objs, sceneVars>>

\* restore_state(identifier, objs[o]): the letters' arrays are bound anew
AliasRestore(identifier, o) ==
    /\ ops < MaxAliasOps /\ ops' = ops + 1
    /\ LET r == restore_state(states, identifier, objs[o])
       IN  /\ objs' = [objs EXCEPT ![o] = r.bt]
           /\ states' =
                 IF identifier \notin DOMAIN states THEN states
                 ELSE [k \in DOMAIN states |->
                         [states[k] EXCEPT
                             !.views = (@ \ {o}) \cup
                                 (IF k = identifier THEN np_array_views(o) ELSE {}),
                             !.restores = IF k = identifier THEN Min(2, @ + 1) ELSE @]]
           /\ lastOp' = [op |-> "restore", obj |-> o, id |-> identifier,
                         result |-> r.ok,
                         fresh |-> /\ identifier \in DOMAIN states
                                   /\ objs[o] = NewBurningText(states[identifier].text)]
    /\ UNCHANGED <<saved_src, sceneVars>>

\* a scene constructs its BurningText anew: object o is a new object
AliasRenew(o) ==
    /\ ops < MaxAliasOps /\ ops' = ops + 1
    /\ objs[o] # NewBurningText(objs[o].text)
    /\ objs' = [objs EXCEPT ![o] = NewBurningText(@.text)]
    /\ states' = [k \in DOMAIN states |-> [states[k] EXCEPT !.views = @ \ {o}]]
    /\ lastOp' = [op |-> "new", obj |-> o]
    /\ UNCHANGED <<saved_src, sceneVars>>

InitAlias == TextIdle /\ ScenesIdle

NextAlias ==
    \/ ops < MaxAliasOps /\ \E o \in ObjIds, p \in MousePoints :
         \E rolls \in RollChoices(objs[o], p, TicksPerSec),
            tex \in TextTextureChoices(objs[o], p, TicksPerSec) :
            AliasFrame(o, p, TicksPerSec, rolls, tex)
    \/ \E o \in ObjIds : AliasSave("X", o)
    \/ \E o \in ObjIds : AliasRestore("X", o)
    \/ \E o \in ObjIds : AliasRenew(o)

SpecAlias == InitAlias /\ [][NextAlias]_vars

(***************************************************************************)
(* SpecTwin: the ScreenBurnTransition of main_menu.py and the one of       *)
(* settings_screen.py side by side, given the same calls, frame lengths    *)
(* and rolls.  Here tr holds the two of them.                              *)
(***************************************************************************)
TwinStart(reverse_mode, dt) ==
    /\ tr' = [c \in DOMAIN tr |-> ScreenBurn_start(tr[c], reverse_mode)]
    /\ run' = [dt |-> dt, frames |-> 0]
    /\ UNCHANGED <<textVars, sc, fd>>

TwinUpdate(rolls) ==
    /\ run.frames < MaxSparkFrames
    /\ tr' = [c \in DOMAIN tr |-> ScreenBurn_update(tr[c], run.dt, rolls)]
    /\ run' = [run EXCEPT !.frames = @ + 1]
    /\ UNCHANGED <<textVars, sc, fd>>

InitTwin ==
    /\ TextIdle
    /\ fd = NewFadeTransition
    /\ tr = [c \in {"main_menu", "settings_screen"} |-> NewScreenBurnTransition(c)]
    /\ run = [dt |-> 0, frames |-> 0]
    /\ sc = NewMainMenu

NextTwin ==
    \/ \E reverse_mode \in BOOLEAN, dt \in SparkDts : TwinStart(reverse_mode, dt)
    \/ \E rolls \in SUBSET ParticleKinds : TwinUpdate(rolls)

SpecTwin == InitTwin /\ [][NextTwin]_vars

(***************************************************************************)
(* SpecPointer: one BurningText of two letters and a space between them,   *)
(* under BurningText.update alone, the pointer on either letter or off the *)
(* text.                                                                   *)
(***************************************************************************)
PointerText == <<"A", " ", "B">>
PointerPoints == {<<0, 0>>, <<3, 0>>, <<9, 9>>}
PointerDts == {TicksPerSec \div 2, TicksPerSec}

\* BurningText.update of object 1; hovered is history: the letters whose
\* rect has held the pointer in some frame so far
PointerFrame(mouse_pos, dt, rolls, tex) ==
    /\ ops < MaxPointerFrames /\ ops' = ops + 1
    /\ objs' = [objs EXCEPT ![1] = BurningText_update(@, mouse_pos, dt, rolls, tex)]
    /\ lastOp' = [op |-> "text_update", obj |-> 1, mouse_pos |-> mouse_pos,
                  dt |-> dt,
                  hovered |-> lastOp.hovered \cup
                      {i \in 1 .. Len(objs[1].letters) :
                          /\ IsLetter(objs[1].letters[i])
                          /\ CollidePoint(objs[1].letters[i], mouse_pos)}]
    /\ UNCHANGED <<states, saved_src, sceneVars>>

InitPointer ==
    /\ objs = [o \in ObjIds |-> NewBurningText(PointerText)]
    /\ states = [k \in {} |-> NoLetter]
    /\ saved_src = [k \in {} |-> <<>>]
    /\ lastOp = [op |-> "init", hovered |-> {}]
    /\ ops = 0
    /\ ScenesIdle

NextPointer ==
    /\ ops < MaxPointerFrames
    /\ \E mouse_pos \in PointerPoints, dt \in PointerDts :
          \E rolls \in RollChoices(objs[1], mouse_pos, dt),
             tex \in TextTextureChoices(objs[1], mouse_pos, dt) :
             PointerFrame(mouse_pos, dt, rolls, tex)

SpecPointer == InitPointer /\ [][NextPointer]_vars

(***************************************************************************)
(* SpecEmbers: one Letter with its particles, which the frame loop goes on *)
(* updating once it is burnt out.                                          *)
(***************************************************************************)
\* every cell of the glyph has burnt out
Charred(L) == \A c \in L.mask : L.fuel_map[c] = 0

\* Letter.update of a later frame, on a burnt-out letter: as StepCall, the
\* calls no longer counted
CoolCall(o, i, dt, rolls, tex, sps) ==
    /\ Charred(objs[o].letters[i])
    /\ objs' = [objs EXCEPT ![o].letters[i] = Letter_update(@, dt, rolls, tex, sps)]
    /\ lastOp' = [op |-> "update", obj |-> o, idx |-> i, dt |-> dt,
                  burning |-> BurningMask(objs[o].letters[i], dt),
                  spread |-> Spreaders(objs[o].letters[i], dt, rolls),
                  sps |-> sps]
    /\ UNCHANGED <<ops, states, saved_src, sceneVars>>

\* the frame lengths of SpecEmbers: one second and two
EmberDts == {TicksPerSec, 2 * TicksPerSec}

LaterFrames ==
    \E dt \in EmberDts :
       \E rolls \in {{}, BurningMask(objs[1].letters[1], dt)},
          tex \in FirstTexture(objs[1].letters[1], dt),
          sps \in SpawnChoices(objs[1].letters[1], dt) :
          CoolCall(1, 1, dt, rolls, tex, sps)

InitEmbers == TextIdle /\ ScenesIdle

NextEmbers ==
    \/ \E p \in MousePoints, r \in Radii : HeatCall(1, 1, p, r, TicksPerSec)
    \/ /\ ops < MaxLetterOps
       /\ \E dt \in EmberDts :
         \E rolls \in {{}, BurningMask(objs[1].letters[1], dt)},
            tex \in FirstTexture(objs[1].letters[1], dt),
            sps \in SpawnChoices(objs[1].letters[1], dt) :
            StepCall(1, 1, dt, rolls, tex, sps)
    \/ LaterFrames

\* the loop that owns the letter calls update once a frame, with dt > 0
SpecEmbers == InitEmbers /\ [][NextEmbers]_vars /\ WF_vars(LaterFrames)

(***************************************************************************)
(* SpecFlow: the title across the scenes of main().  StartScreen and       *)
(* MainMenu own a BurningText title (object 1) which every frame updates   *)
(* under the pointer; a run loop may end after any frame; run() saves the  *)
(* title on its way out and MainMenu.__init__ restores it onto a new one.  *)
(* SettingsScreen owns no title.  Of a scene only the flow is kept here.   *)
(***************************************************************************)
\* the title's text: letters around a space, like "SCARRED WINDS"
TitleText == <<"A", " ", "B">>
TITLE_ID == "SCARRED WINDS"
\* pointer positions: on the first letter, on the last one
TitlePoints == {<<0, 0>>, <<3, 0>>}

\* a scene under main(); menus is history: the MainMenu instances so far
FlowScene(kind, menus) ==
    [kind |-> kind, pc |-> "running", selected_option |-> NoneStr, menus |-> menus]

\* faulty variant: the new MainMenu keeps its freshly built title
MainMenuTitleFresh(st) == NewBurningText(TitleText)

\* MainMenu.__init__: the title is built, then restored from the store
MainMenuTitle(st) == restore_state(st, TITLE_ID, NewBurningText(TitleText)).bt

\* one frame of StartScreen or MainMenu: update() updates the title
FlowFrame(mouse_pos, dt, rolls, tex) ==
    /\ ops < MaxTitleFrames
    /\ sc.pc = "running" /\ sc.kind \in {"start_screen", "main_menu"}
    /\ TextUpdate(1, mouse_pos, dt, rolls, tex)

\* the run loop ends: StartScreen.run and MainMenu.run save the title and
\* return, SettingsScreen.run returns
FlowReturn(option) ==
    /\ sc.pc = "running"
    /\ (sc.kind = "main_menu") = (option \in Buttons)
    /\ sc' = [sc EXCEPT !.pc = "returned", !.selected_option = option]
    /\ IF sc.kind = "settings"
       THEN UNCHANGED <<objs, states, saved_src, lastOp>>
       ELSE /\ states' = save_state(states, TITLE_ID, objs[1])
            /\ saved_src' = [k \in DOMAIN saved_src \cup {TITLE_ID} |->
                                IF k = TITLE_ID THEN objs[1].letters ELSE saved_src[k]]
            /\ lastOp' = [op |-> "save", obj |-> 1, id |-> TITLE_ID]
            /\ UNCHANGED objs
    /\ UNCHANGED <<ops, tr, run, fd>>

\* main(): the next scene is constructed
FlowEnter ==
    /\ sc.pc = "returned"
    /\ \/ /\ sc.kind = "main_menu" /\ sc.selected_option = "Settings"
          /\ sc' = FlowScene("settings", sc.menus)
          /\ UNCHANGED <<objs, lastOp>>
       \/ /\ sc.kind \in {"start_screen", "settings"}
          /\ sc' = FlowScene("main_menu", Min(2, sc.menus + 1))
          /\ objs' = [objs EXCEPT ![1] = MainMenuTitle(states)]
          /\ lastOp' = [op |-> "restore", obj |-> 1, id |-> TITLE_ID,
                        result |-> restore_state(states, TITLE_ID,
                                                 NewBurningText(TitleText)).ok,
                        fresh |-> TRUE]
    /\ UNCHANGED <<states, saved_src, ops, tr, run, fd>>

InitFlow ==
    /\ objs = [o \in ObjIds |-> NewBurningText(TitleText)]
    /\ states = [k \in {} |-> NoLetter]
    /\ saved_src = [k \in {} |-> <<>>]
    /\ lastOp = [op |-> "init"]
    /\ ops = 0
    /\ tr = NewScreenBurnTransition("main_menu")
    /\ run = [dt |-> 0, frames |-> 0]
    /\ fd = NewFadeTransition
    /\ sc = FlowScene("start_screen", 0)

NextFlow ==
    \/ \E p \in TitlePoints :
         \E rolls \in RollChoices(objs[1], p, TicksPerSec),
            tex \in TextTextureChoices(objs[1], p, TicksPerSec) :
            FlowFrame(p, TicksPerSec, rolls, tex)
    \/ \E option \in Buttons \cup {NoneStr} : FlowReturn(option)
    \/ FlowEnter

SpecFlow == InitFlow /\ [][NextFlow]_vars

(***************************************************************************)
(* Properties of the letters.                                              *)
(***************************************************************************)
\* the letter slots of the world: object and index
Slots == {s \in ObjIds \X (1 .. 3) : s[2] <= Len(objs[s[1]].letters)
                                      /\ IsLetter(objs[s[1]].letters[s[2]])}

LetterAt(s) == objs[s[1]].letters[s[2]]

\* the same slot holds a letter before and after the step
Persists(s) ==
    /\ s[2] <= Len(objs[s[1]].letters) /\ IsLetter(objs[s[1]].letters[s[2]])
    /\ s[2] <= Len(objs'[s[1]].letters) /\ IsLetter(objs'[s[1]].letters[s[2]])

AllSlots == ObjIds \X (1 .. 3)

\* C1: after any add_heat and update calls with dt >= 0, every cell of every
\* letter has 0 <= fuel <= 100 and heat >= 0.
C1_FuelHeatRange ==
    \A s \in Slots : \A c \in Cells(LetterAt(s)) :
        /\ 0 <= LetterAt(s).fuel_map[c]
        /\ LetterAt(s).fuel_map[c] <= Fixed(FUEL_FULL)
        /\ LetterAt(s).heat_map[c] >= 0

\* an update has left a cell partly burnt and still warm, and another cell
\* burnt out
C1_Witness ==
    /\ lastOp.op = "update"
    /\ \E s \in Slots : \E c, d \in Cells(LetterAt(s)) :
          /\ 0 < LetterAt(s).fuel_map[c]
          /\ LetterAt(s).fuel_map[c] < Fixed(FUEL_FULL)
          /\ LetterAt(s).heat_map[c] > 0
          /\ d \in LetterAt(s).mask /\ LetterAt(s).fuel_map[d] = 0

C3_BelowIgnitionInert ==
    [][lastOp'.op = "update" =>
          LET L == objs[lastOp'.obj].letters[lastOp'.idx]
              M == objs'[lastOp'.obj].letters[lastOp'.idx]
          IN  \A c \in Cells(L) :
                 L.heat_map[c] < Fixed(IGNITION_POINT) =>
                    /\ M.fuel_map[c] = L.fuel_map[c]
                    /\ c \notin lastOp'.spread]_vars

\* an update in which one cell burnt and spread heat while a warm glyph cell
\* below the ignition point kept its full fuel
C3_Witness ==
    /\ lastOp.op = "update"
    /\ lastOp.spread # {}
    /\ LET L == objs[lastOp.obj].letters[lastOp.idx]
       IN  \E c \in L.mask \ lastOp.spread :
              /\ L.fuel_map[c] = Fixed(FUEL_FULL)
              /\ L.heat_map[c] > 0
              /\ L.heat_map[c] < Fixed(IGNITION_POINT) + Fixed(HEAT_TRANSFER_RATE)

C9_TextureOnce ==
    [][\A s \in AllSlots : Persists(s) =>
          /\ objs'[s[1]].letters[s[2]].gen_calls <= 1
          /\ LetterAt(s).charred_texture # None =>
                /\ objs'[s[1]].letters[s[2]].charred_texture
                      = LetterAt(s).charred_texture
                /\ objs'[s[1]].letters[s[2]].gen_calls = LetterAt(s).gen_calls]_vars

\* a letter holds its texture and has been restored from a snapshot since
C9_Witness ==
    /\ lastOp.op = "restore" /\ lastOp.result
    /\ \E s \in Slots :
          /\ LetterAt(s).charred_texture # None
          /\ \E c \in LetterAt(s).mask : LetterAt(s).fuel_map[c] > 0

(***************************************************************************)
(* Properties of the snapshot store (SpecStore).                           *)
(***************************************************************************)
\* C4: a restore_state onto a freshly constructed BurningText with the saved
\* text returns True and leaves every letter of the target with heat and fuel
\* grids equal, cell for cell, to those of the source's letter when it was saved.
C4_RoundTrip ==
    lastOp.op = "restore" /\ lastOp.fresh =>
        LET src == saved_src[lastOp.id]
            tgt == objs[lastOp.obj].letters
        IN  /\ lastOp.result
            /\ Len(tgt) = Len(src)
            /\ \A i \in 1 .. Len(tgt) :
                  /\ IsLetter(tgt[i]) = IsLetter(src[i])
                  /\ IsLetter(tgt[i]) =>
                        /\ tgt[i].heat_map = src[i].heat_map
                        /\ tgt[i].fuel_map = src[i].fuel_map

\* a fresh object has taken over a snapshot of a letter that was partly burnt
\* and hot when saved
C4_Witness ==
    /\ lastOp.op = "restore" /\ lastOp.fresh /\ lastOp.result
    /\ \E i \in 1 .. Len(saved_src[lastOp.id]) :
          /\ IsLetter(saved_src[lastOp.id][i])
          /\ \E c \in saved_src[lastOp.id][i].mask :
                /\ saved_src[lastOp.id][i].fuel_map[c] > 0
                /\ saved_src[lastOp.id][i].fuel_map[c] < Fixed(FUEL_FULL)
                /\ saved_src[lastOp.id][i].heat_map[c] > 0
                /\ objs[lastOp.obj].letters[i].fuel_map[c]
                      = saved_src[lastOp.id][i].fuel_map[c]

\* C5: restore_state for an id with no stored snapshot returns False and leaves
\* the target's letters and grids and the snapshot store unchanged.
C5_MissingIdNoOp ==
    [][lastOp'.op = "restore" /\ lastOp'.id \notin DOMAIN states =>
          /\ ~lastOp'.result
          /\ objs' = objs
          /\ states' = states]_vars

\* a restore of an id that was saved and cleared since has been refused, on a
\* target that has burnt
C5_Witness ==
    /\ lastOp.op = "restore" /\ ~lastOp.result
    /\ lastOp.id \in DOMAIN saved_src /\ lastOp.id \notin DOMAIN states
    /\ \E i \in 1 .. Len(objs[lastOp.obj].letters) :
          /\ IsLetter(objs[lastOp.obj].letters[i])
          /\ \E c \in objs[lastOp.obj].letters[i].mask :
                objs[lastOp.obj].letters[i].fuel_map[c] < Fixed(FUEL_FULL)

\* the saved list and the target's letters differ in length or in which slots
\* are spaces
SlotsMismatch(saved, letters) ==
    \/ Len(saved) # Len(letters)
    \/ \E i \in 1 .. Min(Len(saved), Len(letters)) :
          IsLetter(saved[i]) # IsLetter(letters[i])

\* C6: a restore_state whose snapshot and target differ in the number of slots
\* or in which slots are spaces returns True, copies heat and fuel into every
\* index where both hold a letter and leaves every other slot alone.
C6_MismatchReturnsTrue ==
    [][lastOp'.op = "restore" /\ lastOp'.id \in DOMAIN states
          /\ SlotsMismatch(saved_src[lastOp'.id], objs[lastOp'.obj].letters) =>
          LET src == saved_src[lastOp'.id]
              old == objs[lastOp'.obj].letters
              new == objs'[lastOp'.obj].letters
          IN  /\ lastOp'.result
              /\ Len(new) = Len(old)
              /\ \A i \in 1 .. Len(old) :
                    IF i <= Len(src) /\ IsLetter(src[i]) /\ IsLetter(old[i])
                    THEN /\ new[i].heat_map = src[i].heat_map
                         /\ new[i].fuel_map = src[i].fuel_map
                    ELSE new[i] = old[i]]_vars

(***************************************************************************)
(* Properties of the transitions and the scenes.                           *)
(***************************************************************************)
Ceil(a, b) == (a + b - 1) \div b

C10_BurnExitOnlyWhenBlack ==
    [][/\ "burn" \in sc'.exits /\ "burn" \notin sc.exits =>
             /\ sc'.screen_burn.complete
             /\ sc'.screen_burn.black_fade_alpha = Fixed(ALPHA_OPAQUE)
       /\ sc'.screen_burn.black_fade_alpha > sc.screen_burn.black_fade_alpha =>
             sc.screen_burn.complete
       /\ ~sc'.screen_burn.complete => sc'.screen_burn.black_fade_alpha = 0]_vars

\* the settings screen, entered through the main menu's burn, has itself
\* returned through its burn and nothing else
C10_Witness ==
    /\ sc.kind = "settings" /\ sc.pc = "returned"
    /\ sc.exits = {"burn"}
    /\ sc.screen_burn.black_fade_alpha = Fixed(ALPHA_OPAQUE)

(***************************************************************************)
(* Properties of the scenes while a transition is under way.               *)
(***************************************************************************)
\* the scene without its position in run() and its history of the frame
SceneCore(m) == [m EXCEPT !.pc = "events", !.dt = 0, !.seen = {}]

\* C11: once a scene has set transitioning, a frame whose events are ESC key
\* presses, clicks and F12 only leaves transitioning, selected_option,
\* next_scene and both transitions (mode, progress, alpha, active) as they
\* were; a scene that returns without a QUIT returns with its transition
\* complete; and a scene that is transitioning does return.
C11_NoAbortMidFlight ==
    /\ [][/\ (/\ sc.pc = "events" /\ sc'.pc = "update"
               /\ sc.transitioning
               /\ "QUIT" \notin sc'.seen)
              => SceneCore(sc') = SceneCore(sc)
          /\ (/\ sc'.pc = "returned" /\ sc.pc # "returned"
              /\ sc'.transitioning
              /\ "quit" \notin sc'.exits)
              => \/ BurnDone(sc'.screen_burn)
                 \/ sc'.kind = "main_menu" /\ sc'.fade_transition.complete]_vars
    /\ (sc.transitioning ~> sc.pc = "returned")

\* the main menu is in its outward burn towards the settings, part of the
\* way, and the frame brought an ESC and a click on another button
C11_Witness ==
    /\ sc.kind = "main_menu" /\ sc.pc = "update"
    /\ sc.transitioning /\ sc.selected_option = "Settings"
    /\ sc.screen_burn.burn_progress > 0
    /\ sc.screen_burn.burn_progress < ProgressFull
    /\ sc.seen = {"ESC", "CLICK_BUTTON"}

(***************************************************************************)
(* Properties of the snapshot store.                                       *)
(***************************************************************************)
\* C12: a step removes the entry of an id only by clear_state of that id or
\* by clear_all_states, and changes it only by save_state of that id; through
\* every other call (restore_state of any id, save_state and clear_state of
\* other ids, heat, updates, drawing) the entry stays as it is.
C12_EntryPersists ==
    [][\A id \in DOMAIN states :
          /\ id \notin DOMAIN states' =>
                \/ lastOp'.op = "clear" /\ lastOp'.id = id
                \/ lastOp'.op = "clear_all"
          /\ (id \in DOMAIN states' /\ states'[id] # states[id]) =>
                lastOp'.op = "save" /\ lastOp'.id = id]_vars

\* the snapshot under "X" has just been cleared while the one under
\* "SCARRED WINDS", taken from an object that has changed since, is still in
\* the store
C12_Witness ==
    /\ lastOp.op = "clear" /\ lastOp.id = "X"
    /\ "X" \in DOMAIN saved_src /\ "X" \notin DOMAIN states
    /\ "SCARRED WINDS" \in DOMAIN states
    /\ \A o \in ObjIds :
          StateData(objs[o]) # states["SCARRED WINDS"]

(***************************************************************************)
(* Properties of the heat a letter's cells receive.                        *)
(***************************************************************************)
\* C13: under add_heat and update, every cell of a letter's grid that lies
\* outside the glyph mask has heat 0.
C13_OffMaskCold ==
    \A s \in Slots : \A c \in Cells(LetterAt(s)) \ LetterAt(s).mask :
        LetterAt(s).heat_map[c] = 0

\* C20: a burning cell whose spread roll succeeded receives nothing from its
\* own spread: with no other spreading cell among its eight neighbours, its
\* heat does not rise in the step.
C20_SpreadSkipsCentre ==
    [][lastOp'.op = "update" =>
          LET L == objs[lastOp'.obj].letters[lastOp'.idx]
              M == objs'[lastOp'.obj].letters[lastOp'.idx]
          IN  \A b \in lastOp'.spread :
                 (\A d \in lastOp'.spread \ {b} : b \notin SpreadSlice(L, d))
                    => M.heat_map[b] <= L.heat_map[b]]_vars

(***************************************************************************)
(* Properties of the charred texture.                                      *)
(***************************************************************************)
\* C19: a letter without a charred texture gets one in exactly those update
\* steps at whose end every cell of its glyph mask has fuel 0, so in the
\* first such step and in no earlier one; no other call gives it one, and a
\* letter that has one keeps having one.
C19_TextureWhenBurntOut ==
    [][\A s \in AllSlots : Persists(s) =>
          LET L == LetterAt(s)
              M == objs'[s[1]].letters[s[2]]
          IN  M.charred_texture # None <=>
                 \/ L.charred_texture # None
                 \/ /\ lastOp'.op = "update"
                    /\ lastOp'.obj = s[1] /\ lastOp'.idx = s[2]
                    /\ \A c \in M.mask : M.fuel_map[c] = 0]_vars

\* an update has ended with the whole glyph burnt out and the texture
\* generated, once
C19_Witness ==
    /\ lastOp.op = "update"
    /\ LET L == objs[lastOp.obj].letters[lastOp.idx]
       IN  /\ L.charred_texture # None /\ L.gen_calls = 1
           /\ \A c \in L.mask : L.fuel_map[c] = 0

(***************************************************************************)
(* Properties of a BurningText without letters (SpecBlank).                *)
(***************************************************************************)
\* the text is empty or made of spaces only
IsBlank(text) == \A i \in 1 .. Len(text) : text[i] = " "

\* C14: a BurningText built from empty text or from spaces only never holds
\* a Letter, so no cells and no particles; its update leaves its slots as
\* they are, its save_state stores a snapshot whose slots are all None, and
\* restore_state onto it changes nothing; restore_state of a snapshot saved
\* from such an object returns True and changes nothing, whatever the target.
C14_BlankIsNoOp ==
    [][/\ \A o \in ObjIds : IsBlank(objs'[o].text) =>
             /\ Len(objs'[o].letters) = Len(objs'[o].text)
             /\ \A i \in 1 .. Len(objs'[o].letters) : ~IsLetter(objs'[o].letters[i])
       /\ (lastOp'.op = "text_update" /\ IsBlank(objs[lastOp'.obj].text)) =>
             objs'[lastOp'.obj].letters = objs[lastOp'.obj].letters
       /\ (lastOp'.op = "save" /\ IsBlank(objs[lastOp'.obj].text)) =>
             /\ lastOp'.id \in DOMAIN states'
             /\ states'[lastOp'.id].text = objs[lastOp'.obj].text
             /\ states'[lastOp'.id].letters_state
                    = [i \in 1 .. Len(objs[lastOp'.obj].text) |-> NoLetter]
       /\ (lastOp'.op = "restore" /\ IsBlank(objs[lastOp'.obj].text)) =>
             objs' = objs
       /\ (/\ lastOp'.op = "restore" /\ lastOp'.id \in DOMAIN states
           /\ IsBlank(states[lastOp'.id].text)) =>
             lastOp'.result /\ objs' = objs]_vars

\* the object built from empty text has been updated, and a snapshot saved
\* from the object built from two spaces has been restored onto it with
\* result True
C14_Witness ==
    /\ lastOp.op = "restore" /\ lastOp.result
    /\ objs[lastOp.obj].text = <<>>
    /\ objs[lastOp.obj].time > 0
    /\ states[lastOp.id].text = <<" ", " ">>

(***************************************************************************)
(* Properties of the transitions driven on their own (SpecBurn).           *)
(***************************************************************************)
\* the step is an update of the transition under way
IsUpdateStep == run'.frames = run.frames + 1

\* C16: an update of a ScreenBurnTransition that was never started changes
\* nothing.  Between two starts complete never goes from True to False and
\* burn_progress stays as it is once complete is True; black_fade_alpha is 0
\* while complete is False and never decreases in an update; and complete
\* with black_fade_alpha 255 is kept by every update.
C16_Lifecycle ==
    [][/\ ~tr'.complete => tr'.black_fade_alpha = 0
       /\ IsUpdateStep =>
             /\ ~tr.active => tr' = tr
             /\ tr.complete =>
                   tr'.complete /\ tr'.burn_progress = tr.burn_progress
             /\ tr'.black_fade_alpha >= tr.black_fade_alpha
             /\ (tr.complete /\ tr.black_fade_alpha = Fixed(ALPHA_OPAQUE)) =>
                   /\ tr'.complete
                   /\ tr'.black_fade_alpha = Fixed(ALPHA_OPAQUE)
                   /\ [tr' EXCEPT !.time = tr.time] = tr]_vars

\* an inward burn has completed, its overlay has reached 255 past a clamp,
\* and it has been updated again since
C16_Witness ==
    /\ tr.active /\ tr.reverse_mode /\ tr.complete
    /\ tr.black_fade_alpha = Fixed(ALPHA_OPAQUE)
    /\ run.dt = TicksPerSec \div 30
    /\ run.frames > Ceil(ProgressFull, burn_speed * run.dt)
                       + Ceil(Fixed(ALPHA_OPAQUE), black_fade_speed * run.dt * ALPHA_OPAQUE)

\* C17: under start and update with dt >= 0, burn_progress stays within
\* [0, 1] and black_fade_alpha within [0, 255], and the fade_alpha of a
\* FadeTransition within [0, 255].
C17_Ranges ==
    /\ 0 <= tr.burn_progress /\ tr.burn_progress <= ProgressFull
    /\ 0 <= tr.black_fade_alpha /\ tr.black_fade_alpha <= Fixed(ALPHA_OPAQUE)
    /\ 0 <= fd.fade_alpha /\ fd.fade_alpha <= Fixed(ALPHA_OPAQUE)

\* a fade at four frames a second is complete at 255 after two updates, the
\* second of which overstepped 255
C17_Witness ==
    /\ fd.active /\ fd.complete
    /\ fd.fade_alpha = Fixed(ALPHA_OPAQUE)
    /\ run.dt = TicksPerSec \div 4 /\ run.frames = 2
    /\ run.frames * fade_speed * run.dt * ALPHA_OPAQUE > Fixed(ALPHA_OPAQUE)

\* C18: start(False) puts burn_progress at 0 and start(True) at 1; an update
\* of an outward burn never lowers burn_progress and one of an inward burn
\* never raises it; an inward burn is complete exactly when burn_progress has
\* reached 0, which with a fixed dt > 0 is from the update
\* ceil(1 / (burn_speed * dt)) on and not before.
C18_ModeDirection ==
    [][/\ (~IsUpdateStep /\ tr' # tr) =>
             /\ tr'.active /\ ~tr'.complete
             /\ tr'.burn_progress = IF tr'.reverse_mode THEN ProgressFull ELSE 0
       /\ (IsUpdateStep /\ ~tr.reverse_mode) =>
             tr'.burn_progress >= tr.burn_progress
       /\ (IsUpdateStep /\ tr.reverse_mode) =>
             tr'.burn_progress <= tr.burn_progress
       /\ (tr'.active /\ tr'.reverse_mode) =>
             /\ tr'.complete <=> tr'.burn_progress = 0
             /\ run'.dt > 0 =>
                   (tr'.complete <=>
                       run'.frames >= Ceil(ProgressFull, burn_speed * run'.dt))]_vars

\* an inward burn with a third of a second per frame has completed in its
\* second update, clamped at 0 from below it
C18_Witness ==
    /\ tr.active /\ tr.reverse_mode /\ tr.complete
    /\ tr.burn_progress = 0
    /\ run.dt = TicksPerSec \div 3 /\ run.frames = 2
    /\ ProgressFull - run.frames * burn_speed * run.dt < 0

(***************************************************************************)
(* Properties of the title across scenes (SpecFlow).                       *)
(***************************************************************************)
\* C15: every MainMenu constructed after StartScreen.run or a MainMenu.run
\* has returned starts with a title whose letters have heat and fuel grids
\* equal, cell for cell, to those the title of the previous title-owning
\* scene had when that scene's loop ended, through any number of round
\* trips to the settings.
C15_TitlePersists ==
    [][(sc'.kind = "main_menu" /\ sc'.pc = "running" /\ sc.pc = "returned") =>
          LET src == saved_src[TITLE_ID]
              tgt == objs'[1].letters
          IN  /\ Len(tgt) = Len(src)
              /\ \A i \in 1 .. Len(tgt) :
                    /\ IsLetter(tgt[i]) = IsLetter(src[i])
                    /\ IsLetter(tgt[i]) =>
                          /\ tgt[i].heat_map = src[i].heat_map
                          /\ tgt[i].fuel_map = src[i].fuel_map]_vars

\* the second MainMenu has just been constructed, after a visit to the
\* settings, with one letter of its title burnt out and another one hot and
\* partly burnt
C15_Witness ==
    /\ sc.kind = "main_menu" /\ sc.pc = "running" /\ sc.menus = 2
    /\ lastOp.op = "restore" /\ lastOp.result
    /\ \E i, j \in 1 .. Len(objs[1].letters) :
          /\ IsLetter(objs[1].letters[i]) /\ IsLetter(objs[1].letters[j])
          /\ \A c \in objs[1].letters[i].mask : objs[1].letters[i].fuel_map[c] = 0
          /\ \E c \in objs[1].letters[j].mask :
                /\ objs[1].letters[j].fuel_map[c] > 0
                /\ objs[1].letters[j].fuel_map[c] < Fixed(FUEL_FULL)
                /\ objs[1].letters[j].heat_map[c] > 0

(***************************************************************************)
(* Properties of restore_state and save_state on the objects they touch.   *)
(***************************************************************************)
\* C27: whenever restore_state returns False, every letter of the target has
\* the heat and fuel grids it had before the call.
C27_FalseMeansUntouched ==
    [][(lastOp'.op = "restore" /\ ~lastOp'.result) =>
          \A i \in 1 .. Len(objs[lastOp'.obj].letters) :
             IsLetter(objs[lastOp'.obj].letters[i]) =>
                /\ objs'[lastOp'.obj].letters[i].heat_map
                      = objs[lastOp'.obj].letters[i].heat_map
                /\ objs'[lastOp'.obj].letters[i].fuel_map
                      = objs[lastOp'.obj].letters[i].fuel_map]_vars

\* a letter or a None slot without its grids (and the history kept of them)
WithoutGrids(L) ==
    IF IsLetter(L)
    THEN [L EXCEPT !.heat_map = <<>>, !.fuel_map = <<>>, !.hot_acc = <<>>]
    ELSE L

\* C29: restore_state leaves the store and every other object as they are,
\* and on its target the text, the elapsed time, the number of slots and, in
\* every slot, everything but heat_map and fuel_map (char, pos, size, mask,
\* particles, charred texture); save_state leaves every object as it is and
\* every store entry other than the one of its id.
C29_TouchOnlyTransferred ==
    [][/\ lastOp'.op = "restore" =>
             /\ states' = states
             /\ \A o \in ObjIds \ {lastOp'.obj} : objs'[o] = objs[o]
             /\ objs'[lastOp'.obj].text = objs[lastOp'.obj].text
             /\ objs'[lastOp'.obj].time = objs[lastOp'.obj].time
             /\ Len(objs'[lastOp'.obj].letters) = Len(objs[lastOp'.obj].letters)
             /\ \A i \in 1 .. Len(objs[lastOp'.obj].letters) :
                   WithoutGrids(objs'[lastOp'.obj].letters[i])
                      = WithoutGrids(objs[lastOp'.obj].letters[i])
       /\ lastOp'.op = "save" =>
             /\ objs' = objs
             /\ \A id \in DOMAIN states \ {lastOp'.id} :
                   id \in DOMAIN states' /\ states'[id] = states[id]]_vars

\* a restore has returned True and changed the grids of a letter that holds
\* its charred texture, on an object that has been updated before
C29_Witness ==
    /\ lastOp.op = "restore" /\ lastOp.result
    /\ objs[lastOp.obj].time > 0
    /\ \E i \in 1 .. Len(objs[lastOp.obj].letters) :
          /\ IsLetter(objs[lastOp.obj].letters[i])
          /\ objs[lastOp.obj].letters[i].charred_texture # None
          /\ \E c \in objs[lastOp.obj].letters[i].mask :
                objs[lastOp.obj].letters[i].fuel_map[c] > 0

(***************************************************************************)
(* Properties of one letter with its particles, and of the particles of a  *)
(* transition.                                                             *)
(***************************************************************************)
TheLetter == objs[1].letters[1]
IsLetterCall(op) == lastOp'.op = op /\ ops' = ops + 1

\* C21: add_heat(x, y, radius, dt) adds HEAT_RATE * dt to the heat of exactly
\* the cells that lie within radius of the centre, have fuel left and are in
\* the glyph mask; the heat of every other cell and the fuel of every cell
\* stay as they were, and with radius 0 the letter is unchanged.
C21_HeatExactlyInRadius ==
    [][IsLetterCall("add_heat") =>
          LET L == TheLetter
              M == TheLetter'
              x == lastOp'.p[1]
              y == lastOp'.p[2]
              r == lastOp'.radius
          IN  /\ \A c \in Cells(L) :
                    M.heat_map[c] =
                        IF /\ DistSq(L, c, x, y) < r * r
                           /\ L.fuel_map[c] > 0
                           /\ c \in L.mask
                        THEN L.heat_map[c] + HEAT_RATE * lastOp'.dt
                        ELSE L.heat_map[c]
              /\ M.fuel_map = L.fuel_map
              /\ r = 0 => M = L]_vars

\* add_heat has just been called on a letter one of whose glyph cells is
\* burnt out and within the radius, and another within the radius has fuel
C21_Witness ==
    /\ lastOp.op = "add_heat"
    /\ \E c, d \in TheLetter.mask :
          /\ DistSq(TheLetter, c, lastOp.p[1], lastOp.p[2]) < lastOp.radius * lastOp.radius
          /\ DistSq(TheLetter, d, lastOp.p[1], lastOp.p[2]) < lastOp.radius * lastOp.radius
          /\ TheLetter.fuel_map[c] = 0
          /\ TheLetter.heat_map[c] < HEAT_RATE * lastOp.dt
          /\ TheLetter.fuel_map[d] > 0
          /\ TheLetter.heat_map[d] >= HEAT_RATE * lastOp.dt

\* C22: a particle is dropped by the update in which its age reaches its
\* lifetime and by no earlier one, so every particle of a letter has
\* age < lifetime, and every particle in a transition's three lists has
\* life > 0.
C22_NoDeadParticleLeft ==
    /\ [](/\ \A i \in 1 .. Len(TheLetter.particles) :
               TheLetter.particles[i].age < TheLetter.particles[i].lifetime
          /\ \A i \in 1 .. Len(tr.fire_particles) : tr.fire_particles[i] > 0
          /\ \A i \in 1 .. Len(tr.smoke_particles) : tr.smoke_particles[i] > 0
          /\ \A i \in 1 .. Len(tr.ember_sparks) : tr.ember_sparks[i] > 0)
    /\ [][IsLetterCall("update") =>
            LET dt == lastOp'.dt
                kept == SelectSeq(TheLetter.particles,
                                  LAMBDA q : q.age + dt < q.lifetime)
                born == {sp \in lastOp'.sps : dt < sp.lifetime}
            IN  /\ Len(TheLetter'.particles) = Len(kept) + Cardinality(born)
                /\ \A i \in 1 .. Len(kept) :
                      TheLetter'.particles[i] = [kept[i] EXCEPT !.age = @ + dt]]_vars

\* an update has dropped the flame it spawned, whose lifetime the step
\* reached, and has kept an older particle
C22_Witness ==
    /\ lastOp.op = "update"
    /\ \E sp \in lastOp.sps : sp.type = "flame" /\ sp.lifetime = lastOp.dt
    /\ Len(TheLetter.particles) = 1
    /\ TheLetter.particles[1].age > lastOp.dt

\* C23: a cell outside the glyph mask has no fuel, is never burning, never
\* consumes fuel, never spreads heat and never spawns a particle; particles
\* are appended only by an update in which a cell is burning.
C23_OffMaskInert ==
    /\ [](\A c \in Cells(TheLetter) \ TheLetter.mask : TheLetter.fuel_map[c] = 0)
    /\ [][IsLetterCall("update") =>
            /\ lastOp'.burning \subseteq TheLetter.mask
            /\ lastOp'.spread \subseteq TheLetter.mask
            /\ \A sp \in lastOp'.sps : sp.cell \in TheLetter.mask
            /\ \A c \in Cells(TheLetter) \ TheLetter.mask :
                  TheLetter'.fuel_map[c] = TheLetter.fuel_map[c]
            /\ lastOp'.burning = {} =>
                  /\ lastOp'.sps = {}
                  /\ Len(TheLetter'.particles) <= Len(TheLetter.particles)]_vars

\* an update in which a glyph cell burnt and spawned, next to a cell outside
\* the mask that the spread has made hotter than the ignition point
C23_Witness ==
    /\ lastOp.op = "update"
    /\ lastOp.sps # {}
    /\ \E c \in Cells(TheLetter) \ TheLetter.mask :
          TheLetter.heat_map[c] >= Fixed(IGNITION_POINT)

\* the letter is cold and has no particle
Quiet(L) == L.particles = <<>> /\ \A c \in Cells(L) : L.heat_map[c] = 0

\* C28: once every glyph cell is burnt out, no add_heat or update changes the
\* fuel, no cell burns, no particle is spawned and add_heat raises no cell's
\* heat; under the updates of the later frames the letter becomes cold and
\* empty of particles, and stays so.
C28_BurntOutComesToRest ==
    /\ [][Charred(TheLetter) /\ lastOp'.op \in {"add_heat", "update"} =>
            /\ TheLetter'.fuel_map = TheLetter.fuel_map
            /\ \A c \in Cells(TheLetter) :
                  lastOp'.op = "add_heat" =>
                      TheLetter'.heat_map[c] <= TheLetter.heat_map[c]
            /\ lastOp'.op = "update" =>
                  /\ lastOp'.burning = {}
                  /\ lastOp'.sps = {}
                  /\ Len(TheLetter'.particles) <= Len(TheLetter.particles)
            /\ Quiet(TheLetter) => Quiet(TheLetter')]_vars
    /\ Charred(TheLetter) ~> Quiet(TheLetter)

\* the letter has burnt out with heat in its cells and a particle in the
\* air, and add_heat has been called on it since
C28_Witness ==
    /\ Charred(TheLetter)
    /\ lastOp.op = "add_heat" /\ lastOp.radius > 0
    /\ TheLetter.particles # <<>>
    /\ \E c \in TheLetter.mask : TheLetter.heat_map[c] >= Fixed(IGNITION_POINT)

(***************************************************************************)
(* Properties of the pointer's heat in BurningText.update.                 *)
(***************************************************************************)
\* C24: BurningText.update adds the pointer's heat only to a letter whose
\* rect contains the pointer and advances every letter; a letter whose rect
\* has never contained the pointer has heat 0 and full fuel on every cell of
\* its glyph.
C24_PointerHeatsOnlyItsLetter ==
    /\ [](\A i \in 1 .. Len(objs[1].letters) :
             (IsLetter(objs[1].letters[i]) /\ i \notin lastOp.hovered) =>
                 \A c \in objs[1].letters[i].mask :
                    /\ objs[1].letters[i].heat_map[c] = 0
                    /\ objs[1].letters[i].fuel_map[c] = Fixed(FUEL_FULL))
    /\ [][lastOp'.op = "text_update" /\ ops' = ops + 1 =>
            /\ objs'[1].time = objs[1].time + lastOp'.dt
            /\ \A i \in 1 .. Len(objs[1].letters) :
                  LET L == objs[1].letters[i]
                      M == objs'[1].letters[i]
                      dt == lastOp'.dt
                  IN  IF ~IsLetter(L) THEN M = L
                      ELSE IF CollidePoint(L, lastOp'.mouse_pos)
                      THEN \A c \in L.mask :
                              L.fuel_map[c] > 0 =>
                                 M.heat_map[c] >=
                                    Max(0, L.heat_map[c] + HEAT_RATE * dt
                                              - COOL_RATE * dt)
                      ELSE BurningMask(L, dt) = {} =>
                              /\ M.fuel_map = L.fuel_map
                              /\ \A c \in Cells(L) :
                                    M.heat_map[c] =
                                       Max(0, L.heat_map[c] - COOL_RATE * dt)]_vars

\* the first letter has been heated by the pointer and is cooling with the
\* pointer off the text; the other letter has never been under it
C24_Witness ==
    /\ lastOp.op = "text_update"
    /\ lastOp.hovered = {1}
    /\ ~CollidePoint(objs[1].letters[1], lastOp.mouse_pos)
    /\ \E c \in objs[1].letters[1].mask : objs[1].letters[1].heat_map[c] > 0

(***************************************************************************)
(* Properties of ScreenBurnTransition across its two classes and across    *)
(* its runs.                                                               *)
(***************************************************************************)
\* what a transition shows of itself
Observed(t) ==
    [active |-> t.active, reverse_mode |-> t.reverse_mode,
     burn_progress |-> t.burn_progress, complete |-> t.complete,
     black_fade_alpha |-> t.black_fade_alpha, time |-> t.time,
     fire_particles |-> t.fire_particles,
     smoke_particles |-> t.smoke_particles,
     ember_sparks |-> t.ember_sparks]

\* C25: given the same start and update calls from fresh, the transition of
\* main_menu.py and that of settings_screen.py agree on active,
\* reverse_mode, burn_progress, complete, black_fade_alpha, time and on the
\* particles in their three lists.
C25_TwinsAgree == Observed(tr["main_menu"]) = Observed(tr["settings_screen"])

\* both have completed an inward burn and are fading in, with particles
\* left in the lists
C25_Witness ==
    /\ tr["settings_screen"].complete
    /\ tr["settings_screen"].reverse_mode
    /\ tr["settings_screen"].black_fade_alpha > 0
    /\ tr["settings_screen"].fire_particles # <<>>
    /\ tr["settings_screen"].smoke_particles # <<>>
    /\ tr["main_menu"].ember_sparks # <<>>

\* C30: start(mode), called in any state, leaves the transition active, not
\* complete, at time 0 with black_fade_alpha 0, its three particle lists
\* empty and burn_progress at 0 (1 in reverse mode): the state start gives a
\* fresh instance, from which the later behaviour follows.
C30_StartIsFresh ==
    [][\A reverse_mode \in BOOLEAN, dt \in SparkDts :
          SparkStart(reverse_mode, dt) =>
              /\ tr'.active /\ ~tr'.complete
              /\ tr'.time = 0 /\ tr'.black_fade_alpha = 0
              /\ tr'.fire_particles = <<>>
              /\ tr'.smoke_particles = <<>>
              /\ tr'.ember_sparks = <<>>
              /\ tr'.burn_progress = IF reverse_mode THEN ProgressFull ELSE 0
              /\ tr' = ScreenBurn_start(NewScreenBurnTransition(tr.cls),
                                        reverse_mode)]_vars

\* a transition started again over a run, and holding particles once more
C30_Witness ==
    /\ run.over
    /\ tr.active /\ tr.time > 0
    /\ tr.smoke_particles # <<>>

(***************************************************************************)
(* Properties of the snapshots when the objects around them change.        *)
(***************************************************************************)
\* C26: the snapshot stored under an identifier holds the grids its source
\* had at the save, whatever add_heat and update do afterwards to the source
\* or to an object restored from it; and every restore of the identifier,
\* whenever it is made, gives its target those grids.
C26_SnapshotIsolated ==
    /\ [](\A k \in DOMAIN states :
             \A i \in 1 .. Len(saved_src[k]) :
                IsLetter(saved_src[k][i]) =>
                   /\ states[k].letters_state[i].heat_map =
                         ToList(saved_src[k][i].heat_map,
                                saved_src[k][i].width, saved_src[k][i].height)
                   /\ states[k].letters_state[i].fuel_map =
                         ToList(saved_src[k][i].fuel_map,
                                saved_src[k][i].width, saved_src[k][i].height))
    /\ [][(lastOp'.op = "restore" /\ ops' = ops + 1 /\ lastOp'.result) =>
            \A i \in 1 .. Len(saved_src[lastOp'.id]) :
               IsLetter(saved_src[lastOp'.id][i]) =>
                  /\ objs'[lastOp'.obj].letters[i].heat_map =
                        saved_src[lastOp'.id][i].heat_map
                  /\ objs'[lastOp'.obj].letters[i].fuel_map =
                        saved_src[lastOp'.id][i].fuel_map]_vars

\* the second restore of a snapshot that was taken of a burning text, onto
\* a new object, after the object of the first restore has burnt on
C26_Witness ==
    /\ lastOp.op = "restore" /\ lastOp.result /\ lastOp.fresh
    /\ states["X"].restores = 2
    /\ \E c \in saved_src["X"][1].mask :
          /\ saved_src["X"][1].heat_map[c] > 0
          /\ saved_src["X"][1].fuel_map[c] < Fixed(FUEL_FULL)
    /\ \E o \in ObjIds \ {lastOp.obj} :
          objs[o].letters[1].fuel_map # saved_src["X"][1].fuel_map

====
